---- MODULE Spec2Model ----
(***************************************************************************)
(* ShellTown world-state engine (src/main.py): the agent registry, the     *)
(* tile-grid collision test and A* path search, the per-agent rate         *)
(* limiter, the registration / claim / join flow, the websocket broadcast  *)
(* and the inactivity clean-up loop.                                       *)
(*                                                                         *)
(* Time is time.time() counted in tenths of a second, so that the 0.2 s    *)
(* move cooldown is the integer 2.  One action is one run of a coroutine   *)
(* between two suspension points (an await that can yield).                *)
(***************************************************************************)
EXTENDS Integers, Sequences, FiniteSets, TLC

(* ------------------------------ bounds -------------------------------- *)
\* The map is MAP_WIDTH x MAP_HEIGHT tiles (140 x 100 in the source); the
\* model explores a small map of the same shape.
MAP_WIDTH == 4
MAP_HEIGHT == 3
\* Capacity of the world (100 in the source).
MAX_AGENTS == 2
\* Number of /register calls explored; codes and tokens are drawn fresh, so
\* the n-th registration owns code n and token n.
MaxRegs == 3
\* Caps on the per-agent counters explored.
MaxMoves == 3
MaxMsgs == 2
\* Length of the chat ring buffer (100 in the source).
MAX_CHAT_HISTORY == 2
\* Number of clock advances explored.
MaxTicks == 4
\* Number of advances past the inactivity timeout explored.
MaxEvictTicks == 1
\* Websocket viewers and request coroutines suspended in a broadcast.
MaxSubs == 1
MaxInflight == 2
\* A max_steps below the size of the small map.
SmallCap == 3
MaxChatTicks == 2
MaxReplyTicks == 2
MaxViewers == 2
\* Length of the chat-history tail a snapshot keeps (50 in the source).
SAVED_CHAT_TAIL == 1
\* Startups after the first explored.
MaxBoots == 1
\* accepted calls of the handlers that only touch needs and events, and decay passes
MaxActs == 2
\* events created
MaxEvents == 1

(* ------------------------------ helpers ------------------------------- *)
Abs(n) == IF n < 0 THEN -n ELSE n

Seconds(n) == n * 10

Max2(a, b) == IF a > b THEN a ELSE b

Min2(a, b) == IF a < b THEN a ELSE b

\* clamp(value, min_val, max_val) = max(min_val, min(max_val, value))
clamp_none(value, min_val, max_val) == value

\* max(min_val, min(max_val, value))
clamp(value, min_val, max_val) == Max2(min_val, Min2(max_val, value))

\* str.lower() on the names and handles the model draws.
Lower(s) ==
  CASE s = "Bob" -> "bob"
    [] s = "Al" -> "al"
    [] s = "H1" -> "h1"
    [] OTHER -> s

\* len(name) for the names the model draws.
NameLen(s) ==
  CASE s = "x" -> 1
    [] s = "Al" -> 2
    [] OTHER -> 3

(* --------------------------- collision grid --------------------------- *)
COLLISION_WIDTH == MAP_WIDTH
COLLISION_HEIGHT == MAP_HEIGHT

\* The blocked tiles of the tile layer the model loads: a wall of two
\* tiles in column 1 and one blocked tile in the last column.
Walls == {<<1, 0>>, <<1, 1>>, <<MAP_WIDTH - 1, 1>>}

\* data["data"]: the flat row-major array, nonzero = blocked (index 0 is
\* element 1 of the sequence).
TileLayer ==
  [i \in 1..(COLLISION_WIDTH * COLLISION_HEIGHT) |->
     IF <<(i - 1) % COLLISION_WIDTH, (i - 1) \div COLLISION_WIDTH>> \in Walls
     THEN 1 ELSE 0]

\* The two outcomes of load_collision_map: no file (COLLISION_MAP stays
\* []) or the tile layer.
CollisionMaps == {<<>>, TileLayer}

\* Another collision_map.json: it blocks the spawn point (2, 0) and, with
\* the tile below the corner, closes the free corner tile off.
SpawnWalls == {<<2, 0>>, <<MAP_WIDTH - 1, 1>>}

WalledSpawnLayer ==
  [i \in 1..(COLLISION_WIDTH * COLLISION_HEIGHT) |->
     IF <<(i - 1) % COLLISION_WIDTH, (i - 1) \div COLLISION_WIDTH>> \in SpawnWalls
     THEN 1 ELSE 0]

ProbeMaps == CollisionMaps \cup {WalledSpawnLayer}

is_blocked(cmap, x, y) ==
  IF cmap = <<>> THEN FALSE
  ELSE IF x < 0 \/ x >= COLLISION_WIDTH \/ y < 0 \/ y >= COLLISION_HEIGHT
       THEN TRUE
       ELSE cmap[y * COLLISION_WIDTH + x + 1] # 0

(* ------------------------------ A* search ----------------------------- *)
heuristic(a, b) == Abs(a[1] - b[1]) + Abs(a[2] - b[2])

\* The ring search of find_path: radius 1..9, dx then dy ascending, the
\* first unblocked tile with |dx| + |dy| = radius.
RingCandidates(cmap, gx, gy) ==
  {c \in (1..9) \X (-9..9) \X (-9..9) :
      /\ Abs(c[2]) <= c[1] /\ Abs(c[3]) <= c[1]
      /\ Abs(c[2]) + Abs(c[3]) = c[1]
      /\ ~is_blocked(cmap, gx + c[2], gy + c[3])}

\* A scan that takes the widest ring first.
ScanBefore_far(c, d) ==
  \/ c[1] > d[1]
  \/ c[1] = d[1] /\ c[2] < d[2]
  \/ c[1] = d[1] /\ c[2] = d[2] /\ c[3] < d[3]

\* The order in which the loops over radius, dx and dy visit the offsets.
ScanBefore(c, d) ==
  \/ c[1] < d[1]
  \/ c[1] = d[1] /\ c[2] < d[2]
  \/ c[1] = d[1] /\ c[2] = d[2] /\ c[3] < d[3]

SubstituteGoal(cmap, gx, gy) ==
  IF ~is_blocked(cmap, gx, gy) THEN <<gx, gy>>
  ELSE LET cands == RingCandidates(cmap, gx, gy)
       IN IF cands = {} THEN <<gx, gy>>
          ELSE LET first == CHOOSE c \in cands : \A d \in cands \ {c} : ScanBefore(c, d)
               IN <<gx + first[2], gy + first[3]>>

\* heapq.heappop on entries (f_score, counter, position): the least tuple.
HeapMin(open_set) ==
  CHOOSE e \in open_set :
    \A o \in open_set \ {e} : e[1] < o[1] \/ (e[1] = o[1] /\ e[2] < o[2])

\* for dx, dy in [(0, -1), (0, 1), (-1, 0), (1, 0)]
NeighborOffsets == << <<0, -1>>, <<0, 1>>, <<-1, 0>>, <<1, 0>> >>

\* RelaxNeighbor without the is_blocked test.
RelaxNeighbor_noblock(cmap, st, current, goal, off) ==
  LET neighbor == <<current[1] + off[1], current[2] + off[2]>>
      tentative_g == st.g_score[current] + 1
  IN IF neighbor \in st.visited THEN st
     ELSE IF neighbor \notin DOMAIN st.g_score \/ tentative_g < st.g_score[neighbor]
          THEN [st EXCEPT
                  !.came_from = (neighbor :> current) @@ st.came_from,
                  !.g_score = (neighbor :> tentative_g) @@ st.g_score,
                  !.counter = st.counter + 1,
                  !.open_set = st.open_set \cup
                     {<<tentative_g + heuristic(neighbor, goal), st.counter + 1, neighbor>>}]
          ELSE st

\* One iteration of the neighbour loop.  (f @@ g is evaluated to an
\* explicit table, so the dictionaries do not nest.)
RelaxNeighbor(cmap, st, current, goal, off) ==
  LET neighbor == <<current[1] + off[1], current[2] + off[2]>>
      tentative_g == st.g_score[current] + 1
  IN IF neighbor \in st.visited THEN st
     ELSE IF is_blocked(cmap, neighbor[1], neighbor[2]) THEN st
     ELSE IF neighbor \notin DOMAIN st.g_score \/ tentative_g < st.g_score[neighbor]
          THEN [st EXCEPT
                  !.came_from = (neighbor :> current) @@ st.came_from,
                  !.g_score = (neighbor :> tentative_g) @@ st.g_score,
                  !.counter = st.counter + 1,
                  !.open_set = st.open_set \cup
                     {<<tentative_g + heuristic(neighbor, goal), st.counter + 1, neighbor>>}]
          ELSE st

RECURSIVE ReconstructPath(_, _)
\* while current in came_from: path.append(current); current = came_from[current]
\* followed by path.reverse()
ReconstructPath(came_from, current) ==
  IF current \in DOMAIN came_from
  THEN Append(ReconstructPath(came_from, came_from[current]), current)
  ELSE <<>>

\* The neighbour loop over the four offsets, in order.  (Each intermediate
\* state is bound as a value, so it is computed once.)
RelaxAll(cmap, s0, current, goal) ==
  CHOOSE s4 \in
    {RelaxNeighbor(cmap, s3, current, goal, NeighborOffsets[4]) : s3 \in
      {RelaxNeighbor(cmap, s2, current, goal, NeighborOffsets[3]) : s2 \in
        {RelaxNeighbor(cmap, s1, current, goal, NeighborOffsets[2]) : s1 \in
          {RelaxNeighbor(cmap, s0, current, goal, NeighborOffsets[1])}}}} : TRUE

\* The body of the while loop for the popped heap entry e.
Expand(cmap, st, e, goal) ==
  LET current == e[3]
      popped == [st EXCEPT !.open_set = st.open_set \ {e}]
  IN IF current \in st.visited THEN popped
     ELSE IF current = goal
     THEN [popped EXCEPT !.visited = st.visited \cup {current},
                         !.path = ReconstructPath(st.came_from, current),
                         !.done = TRUE]
     ELSE RelaxAll(cmap, [popped EXCEPT !.visited = st.visited \cup {current}],
                   current, goal)

\* AStarStep with "while open_set" as the loop condition.
AStarStep_nocap(cmap, st, goal, max_steps) ==
  IF st.done THEN st
  ELSE IF st.open_set = {}
  THEN [st EXCEPT !.done = TRUE]
  ELSE CHOOSE r \in {Expand(cmap, st, e, goal) : e \in {HeapMin(st.open_set)}} : TRUE

\* One pass of "while open_set and len(visited) < max_steps", st.done once
\* the function has returned.
AStarStep(cmap, st, goal, max_steps) ==
  IF st.done THEN st
  ELSE IF st.open_set = {} \/ Cardinality(st.visited) >= max_steps
  THEN [st EXCEPT !.done = TRUE]
  ELSE CHOOSE r \in {Expand(cmap, st, e, goal) : e \in {HeapMin(st.open_set)}} : TRUE

RECURSIVE AStarPasses(_, _, _, _, _)
\* n passes of the loop, split in halves.
AStarPasses(cmap, st, goal, max_steps, n) ==
  IF n <= 1 THEN AStarStep(cmap, st, goal, max_steps)
  ELSE CHOOSE r \in
         {IF half.done THEN half
          ELSE AStarPasses(cmap, half, goal, max_steps, n - (n \div 2)) :
            half \in {AStarPasses(cmap, st, goal, max_steps, n \div 2)}} : TRUE

\* The while loop run until it returns: every pass pops one heap entry, an
\* expansion pushes at most four, and at most max_steps nodes are expanded.
AStarLoop(cmap, st, goal, max_steps) ==
  CHOOSE r \in
    {[path |-> fin.path, expanded |-> Cardinality(fin.visited),
      returned |-> fin.done, goal_expanded |-> goal \in fin.visited] :
       fin \in {AStarPasses(cmap, st, goal, max_steps, 4 * max_steps + 2)}} : TRUE

\* find_path's run: the path it returns, len(visited) when it returns,
\* whether the loop has returned and whether the goal was expanded.
find_path_run(cmap, start_x, start_y, goal_x, goal_y, max_steps) ==
  LET start == <<start_x, start_y>>
      goal == SubstituteGoal(cmap, goal_x, goal_y)
  IN IF start = goal
     THEN [path |-> <<>>, expanded |-> 0, returned |-> TRUE, goal_expanded |-> FALSE]
     ELSE AStarLoop(cmap,
                    [open_set |-> {<<0, 0, start>>},
                     came_from |-> <<>>,
                     g_score |-> (start :> 0),
                     visited |-> {},
                     counter |-> 0,
                     path |-> <<>>,
                     done |-> FALSE],
                    goal, max_steps)

find_path(cmap, start_x, start_y, goal_x, goal_y, max_steps) ==
  find_path_run(cmap, start_x, start_y, goal_x, goal_y, max_steps).path

\* find_path's default max_steps
DEFAULT_MAX_STEPS == 500

\* find_path with the default max_steps between tiles of the map, computed
\* once per collision map.
MapCells == (0..(MAP_WIDTH - 1)) \X (0..(MAP_HEIGHT - 1))

PathsOn(cmap) ==
  [p \in MapCells \X MapCells |->
     find_path(cmap, p[1][1], p[1][2], p[2][1], p[2][2], DEFAULT_MAX_STEPS)]

\* (f @@ g is evaluated to an explicit table.)
PathTableNoMap == PathsOn(<<>>) @@ <<>>

PathTableTiles == PathsOn(TileLayer) @@ <<>>

find_path_default(cmap, start_x, start_y, goal_x, goal_y) ==
  IF cmap \in CollisionMaps /\ <<start_x, start_y>> \in MapCells /\ <<goal_x, goal_y>> \in MapCells
  THEN (IF cmap = <<>> THEN PathTableNoMap ELSE PathTableTiles)
          [<< <<start_x, start_y>>, <<goal_x, goal_y>> >>]
  ELSE find_path(cmap, start_x, start_y, goal_x, goal_y, DEFAULT_MAX_STEPS)

\* MAP_WIDTH and MAP_HEIGHT as the source sets them, and a pair of tiles of
\* that map.
FULL_MAP_WIDTH == 140
FULL_MAP_HEIGHT == 100
FarStart == <<0, 0>>
FarGoal == <<21, 22>>

\* The max_steps values explored: the default and a cap that small paths
\* on the small map already exceed.
ProbeCaps == {DEFAULT_MAX_STEPS, SmallCap}

NoProbe ==
  [start |-> <<0, 0>>, goal |-> <<0, 0>>, cap |-> 0, path |-> <<>>, expanded |-> 0,
   returned |-> FALSE, goal_expanded |-> FALSE]

NoBlockProbe == [called |-> FALSE, x |-> 0, y |-> 0, blocked |-> FALSE]

\* if dist <= 5
NEARBY_RADIUS == 5

\* if agent["message_count"] % 10 == 0
CHAT_SAVE_EVERY == 10

NoMove == [agent |-> 0, committed |-> <<0, 0>>, last |-> <<0, 0>>]

NoReply == [id |-> 0, committed |-> <<0, 0>>, position |-> <<0, 0>>, nearby |-> {}]

(* ------------------------------- inputs ------------------------------- *)
\* SPAWN_POINTS, placed on the small map.
SPAWN_POINTS == << <<0, 0>>, <<2, 0>> >>

\* Request values explored.
Directions == {"up", "down", "left", "right", "to", "jump"}
\* target_x = target_y = None (no integer pair the model draws)
NoTarget == <<-1000, -1000>>
Targets == {<<2, 2>>, <<0, 2>>, <<1, 1>>, <<MAP_WIDTH + 5, -3>>}
Messages == {"hi", "", "   ", "LONG"}

\* len(message) and len(message.strip()); "LONG" stands for a text of 501
\* characters.
MsgLen(m) == CASE m = "hi" -> 2 [] m = "" -> 0 [] m = "   " -> 3 [] OTHER -> 501

StripLen(m) == CASE m = "hi" -> 2 [] m = "LONG" -> 501 [] OTHER -> 0

Ids == 1..MaxRegs
\* An agent id, code or token no registration ever produced, and the
\* empty token.
Bogus == 0
EmptyToken == -1

(* ------------------------------- state -------------------------------- *)
VARIABLES
  now,                    \* time.time(), in tenths of a second
  ticks,                  \* clock advances so far
  COLLISION_MAP,          \* the flat tile array, <<>> when no file was found
  agents,                 \* agent_id -> agent record
  api_keys,               \* api_key -> agent_id
  agent_paths,            \* agent_id -> remaining path steps
  rate_limits,            \* agent_id -> [move, chat] last allowed times
  chat_history,           \* list of chat messages
  pending_registrations,  \* verification_code -> name
  verified_registrations, \* registration_token -> [name, twitter_handle]
  used_twitter_handles,   \* lower-cased handle -> agent_id
  nregs,                  \* registrations issued so far
  njoins,                 \* agents created so far (the n-th has agent id n)
  nsubs,                  \* websockets accepted so far
  ws_connections,         \* list of connected viewers
  tasks,                  \* request coroutines suspended in broadcast_update
  undelivered,            \* viewer -> events published since its snapshot, not yet sent to it
  cleanup,                \* the cleanup_inactive_agents coroutine
  left_events,            \* agent_id -> number of agent_left events published
  stalled,                \* viewers whose socket no longer takes data
  path_probe,             \* a find_path call and what it returned
  block_probe,            \* an is_blocked call and what it returned
  moving,                 \* per suspended move: what it committed and its agent dict
  move_reply,             \* the body of the last successful move's response
  data_file,              \* what DATA_FILE holds on disk
  disk_ok,                \* whether a write to DATA_FILE succeeds
  boots,                  \* startups after the first
  saver,                  \* the periodic_save coroutine
  sims_layer,             \* whether the behaviour observes needs, visits and events
  needs,                  \* agent_id -> the agent's "needs" dict, in half points
  locations_visited,      \* agent_id -> stats["locations_visited"]
  activity_feed,          \* the location_discovered entries logged so far
  active_events,          \* list of events, each with its attendees
  inbox,                  \* what each viewer has received, and the event each broadcast carries
  nacts,                  \* accepted calls of the needs and events handlers, decay passes
  result                  \* what the last handler step answered

vars == <<now, ticks, COLLISION_MAP, agents, api_keys, agent_paths, rate_limits,
          chat_history, pending_registrations, verified_registrations,
          used_twitter_handles, nregs, njoins, nsubs, ws_connections,
          tasks, undelivered, cleanup, left_events, stalled, path_probe, block_probe, moving,
          move_reply, data_file, disk_ok, boots, saver,
          sims_layer, needs, locations_visited, activity_feed, active_events, nacts,
          inbox, result>>

worldVars == <<agents, api_keys, agent_paths, rate_limits, chat_history>>
regVars == <<pending_registrations, verified_registrations, used_twitter_handles, nregs>>
hubVars == <<nsubs, ws_connections, tasks, undelivered, cleanup>>
envVars == <<now, ticks, COLLISION_MAP, stalled>>
probeVars == <<path_probe, block_probe>>
replyVars == <<moving, move_reply>>
bootVars == <<disk_ok, boots, saver>>
storeVars == <<data_file, disk_ok, boots, saver>>
simVars == <<sims_layer, needs, locations_visited, activity_feed, active_events, nacts>>

(* -------------------------- function helpers -------------------------- *)
\* d[k] = v on a dict
Put(d, k, v) == [j \in DOMAIN d \cup {k} |-> IF j = k THEN v ELSE d[j]]

\* d.pop(k, None)
Drop(d, k) == [j \in DOMAIN d \ {k} |-> d[j]]

Last(s) == s[Len(s)]

\* list.remove(x): the first occurrence
RECURSIVE RemoveFirst(_, _)
RemoveFirst(s, x) ==
  IF s = <<>> THEN <<>>
  ELSE IF Head(s) = x THEN Tail(s)
  ELSE <<Head(s)>> \o RemoveFirst(Tail(s), x)

InSeq(s, x) == \E i \in 1..Len(s) : s[i] = x

SetMin(S) == CHOOSE m \in S : \A o \in S : m <= o

(* ------------------------------ Sims layer ---------------------------- *)
\* Needs are counted in half points: the code's steps are 0.5, 1, 2, ...
Points(n) == 2 * n

\* The "needs" dict join_world gives a new agent.
InitialNeeds ==
  [social |-> Points(50), energy |-> Points(100), fun |-> Points(50),
   romance |-> Points(30), hunger |-> Points(80), happiness |-> Points(70)]

NeedNames == DOMAIN InitialNeeds

\* v + amount, with no bound
Bounded_open(v, amount) == v + amount

\* max(0, min(100, v + amount))
Bounded(v, amount) == Max2(0, Min2(Points(100), v + amount))

\* min(100, v + amount)
Raised(v, amount) == Min2(Points(100), v + amount)

\* max(0, v - amount)
Reduced(v, amount) == Max2(0, v - amount)

\* The dicts of the agents that are still in the world.
Living(d, ag) == [a \in DOMAIN d \cap DOMAIN ag |-> d[a]]

\* LOCATIONS in dict order, laid out on the small map: town_square and
\* plaza overlap as they do in the city, cafe and garden are single tiles.
LOCATIONS ==
  <<[id |-> "town_square", x |-> 0, y |-> 1, radius |-> 1, effect |-> "social"],
    [id |-> "cafe", x |-> MAP_WIDTH - 1, y |-> 0, radius |-> 0, effect |-> "food"],
    [id |-> "garden", x |-> MAP_WIDTH - 1, y |-> MAP_HEIGHT - 1, radius |-> 0,
     effect |-> "romantic"],
    [id |-> "plaza", x |-> 1, y |-> MAP_HEIGHT - 1, radius |-> 1, effect |-> "social"]>>

NoLocation == [id |-> "none", x |-> 0, y |-> 0, radius |-> 0, effect |-> "none"]

\* dist = abs(agent.x - loc.x) + abs(agent.y - loc.y); dist <= loc.radius
Within(loc, x, y) == Abs(x - loc.x) + Abs(y - loc.y) <= loc.radius

\* get_agent_location with every match: the locations whose radius holds (x, y).
LocationsAt(x, y) == {LOCATIONS[i].id : i \in {j \in DOMAIN LOCATIONS : Within(LOCATIONS[j], x, y)}}

\* get_agent_location: the first location, in dict order, within whose
\* radius the agent stands.
get_agent_location(x, y) ==
  LET hits == {i \in DOMAIN LOCATIONS : Within(LOCATIONS[i], x, y)}
  IN IF hits = {} THEN NoLocation ELSE LOCATIONS[SetMin(hits)]

\* move_agent, "Track location visits": the visited list of the agent
\* after a move that put it at (x, y).
VisitedAfterMove(visited, x, y) ==
  LET location == get_agent_location(x, y)
  IN IF location # NoLocation /\ ~InSeq(visited, location.id)
     THEN Append(visited, location.id)
     ELSE visited

\* log_activity("location_discovered", ...) of the same move.  The other
\* entry types of the feed and its trim to MAX_FEED_SIZE are left out: the
\* list holds the entries emitted, not the ones still retained.
FeedAfterMove(feed, visited, agent_id, x, y) ==
  LET location == get_agent_location(x, y)
  IN IF location # NoLocation /\ ~InSeq(visited, location.id)
     THEN Append(feed, [type |-> "location_discovered", agent_id |-> agent_id,
                        location |-> location.id])
     ELSE feed

\* move_agent, "Location effects on needs"
NeedsAfterMove(nd, x, y) ==
  LET effect == get_agent_location(x, y).effect
  IN IF effect = "energy" THEN [nd EXCEPT !.energy = Raised(@, Points(1))]
     ELSE IF effect = "food"
     THEN [nd EXCEPT !.hunger = Raised(@, Points(2)), !.energy = Raised(@, Points(1))]
     ELSE IF effect = "relax"
     THEN [nd EXCEPT !.energy = Raised(@, Points(1)), !.happiness = Raised(@, Points(1))]
     ELSE IF effect = "fun" THEN [nd EXCEPT !.fun = Raised(@, Points(1))]
     ELSE IF effect = "social" THEN [nd EXCEPT !.social = Raised(@, 1)]
     ELSE IF effect = "romantic" THEN [nd EXCEPT !.romance = Raised(@, Points(1))]
     ELSE IF effect = "thinking" THEN [nd EXCEPT !.happiness = Raised(@, 1)]
     ELSE nd

\* The ACTIONS dict: the emotes of POST /action with their effects on needs.
Emotes ==
  [sleep |-> [effect |-> [energy |-> Points(15)], requires_location |-> "none"],
   exercise |-> [effect |-> [energy |-> -Points(10), fun |-> Points(5),
                             happiness |-> Points(3)],
                 requires_location |-> "none"],
   cry |-> [effect |-> [happiness |-> -Points(5), social |-> Points(3)],
            requires_location |-> "none"],
   hug |-> [effect |-> [social |-> Points(5), happiness |-> Points(3)],
            requires_location |-> "none"],
   eat |-> [effect |-> [hunger |-> Points(20), energy |-> Points(5)],
            requires_location |-> "cafe"]]

\* for need, amount in effects.items(): if need in agent["needs"]: ...
EffectsApplied(nd, effects) ==
  [need \in DOMAIN nd |->
     IF need \in DOMAIN effects THEN Bounded(nd[need], effects[need]) ELSE nd[need]]

\* The code of perform_action that follows "await broadcast_update".
NeedsAfterAction(all, agent_id, action) ==
  IF agent_id \in DOMAIN all
  THEN [all EXCEPT ![agent_id] = EffectsApplied(@, Emotes[action].effect)]
  ELSE all

\* "Hug gives bonus to both": the target's needs, changed before the broadcast.
NeedsAfterHug(all, target_id) ==
  [all EXCEPT ![target_id].social = Raised(@, Points(3)),
              ![target_id].happiness = Raised(@, Points(2))]

(* ----------------------------- rate limiter --------------------------- *)
\* RATE_LIMITS, seconds between actions: move 0.2, chat 2.0
RATE_LIMITS == [move |-> 2, chat |-> Seconds(2)]

\* rate_limits is a defaultdict: reading rate_limits[agent_id] creates the
\* entry {"move": 0, "chat": 0}.
RateEntry(rl, agent_id) ==
  IF agent_id \in DOMAIN rl THEN rl[agent_id] ELSE [move |-> 0, chat |-> 0]

RateAllowed_always(rl, agent_id, action, t) == TRUE

\* check_rate_limit's answer: not (now - last_time < RATE_LIMITS[action])
RateAllowed(rl, agent_id, action, t) ==
  ~(t - RateEntry(rl, agent_id)[action] < RATE_LIMITS[action])

RateRecord_always(rl, agent_id, action, t) ==
  Put(rl, agent_id, [RateEntry(rl, agent_id) EXCEPT ![action] = t])

\* A limiter with one last-allowed time for both kinds of action.
RateRecord_shared(rl, agent_id, action, t) ==
  IF RateAllowed(rl, agent_id, action, t)
  THEN Put(rl, agent_id, [move |-> t, chat |-> t])
  ELSE Put(rl, agent_id, RateEntry(rl, agent_id))

\* check_rate_limit's effect on rate_limits
RateRecord(rl, agent_id, action, t) ==
  IF RateAllowed(rl, agent_id, action, t)
  THEN Put(rl, agent_id, [RateEntry(rl, agent_id) EXCEPT ![action] = t])
  ELSE Put(rl, agent_id, RateEntry(rl, agent_id))

\* rate_limits after a /move or /chat call: "if request.agent_id not in
\* agents: raise 404" comes before check_rate_limit.
RateAfterCall_first(ag, rl, agent_id, action, t) == RateRecord(rl, agent_id, action, t)

RateAfterCall(ag, rl, agent_id, action, t) ==
  IF agent_id \notin DOMAIN ag THEN rl ELSE RateRecord(rl, agent_id, action, t)

(* ------------------------------ broadcast ----------------------------- *)
\* A coroutine suspended in broadcast_update at "await ws.send_text": cur
\* is the websocket of the pending send, idx the position of the list
\* iterator of "for ws in ws_connections", disc the list disconnected,
\* tried the websockets send_text has been called on, since the number of
\* websockets accepted when the call began.
Idle ==
  [kind |-> "idle", agent |-> 0, cur |-> 0, idx |-> 0, disc |-> <<>>, tried |-> {},
   since |-> 0]

Slots == 1..MaxInflight

HasFreeSlot == \E s \in Slots : tasks[s] = Idle

FreeSlot == CHOOSE s \in Slots : tasks[s] = Idle /\ \A o \in Slots : tasks[o] = Idle => s <= o

\* broadcast_update up to its first await: with no viewer connected the
\* call returns at once, else the caller is suspended in the first send.
FirstSend(kind, agent_id) ==
  [kind |-> kind, agent |-> agent_id, cur |-> ws_connections[1], idx |-> 1, disc |-> <<>>,
   tried |-> {ws_connections[1]}, since |-> nsubs]

\* for ws in disconnected: if ws in ws_connections: ws_connections.remove(ws)
RECURSIVE PruneDisconnected(_, _)
PruneDisconnected(conns, disc) ==
  IF disc = <<>> THEN conns
  ELSE PruneDisconnected(RemoveFirst(conns, Head(disc)), Tail(disc))

\* A broadcast begins: its event is owed to every connected viewer, and
\* send_text is called on the first of them.
DueAfterStart(due, conns) ==
  [ws \in DOMAIN due |->
     IF InSeq(conns, ws) /\ ws # conns[1] THEN due[ws] + 1 ELSE due[ws]]

\* A broadcast that began when `since` websockets had been accepted calls
\* send_text on t.cur, or has returned (t idle).
DueAfterSend(due, t, since) ==
  IF t.kind # "idle" /\ t.cur <= since /\ t.cur \in DOMAIN due
  THEN [due EXCEPT ![t.cur] = @ - 1]
  ELSE due

\* The request handler's broadcast: tasks' after the handler has run up to
\* its first suspension.
Broadcast(kind, agent_id) ==
  IF ws_connections = <<>>
  THEN UNCHANGED <<tasks, undelivered>>
  ELSE /\ HasFreeSlot
       /\ tasks' = [tasks EXCEPT ![FreeSlot] = FirstSend(kind, agent_id)]
       /\ undelivered' = DueAfterStart(undelivered, ws_connections)

\* The event a broadcast carries: its type, the agent and, for a move,
\* the agent's move_count after the commit.
NoEvent == [kind |-> "none", agent |-> 0, n |-> 0]

\* message = json.dumps({"type": update_type, "data": data}): the event
\* of the call that is about to be suspended in its first send.
Carry(box, kind, agent_id, n) ==
  IF box.on /\ ws_connections # <<>>
  THEN [box EXCEPT !.sent[FreeSlot] = [kind |-> kind, agent |-> agent_id, n |-> n]]
  ELSE box

\* "await ws.send_text(message)" has returned (ok) or raised: the viewer
\* has the message when it returned.
Received(got, ws, event, ok) ==
  IF ok /\ event # NoEvent /\ ws \in DOMAIN got
  THEN [got EXCEPT ![ws] = Append(@, event)]
  ELSE got

\* One send of a suspended broadcast returns (ok) or raises (~ok); the
\* loop goes on to the next list position or ends and prunes.
AfterSend(t, ok) ==
  LET disc1 == IF ok THEN t.disc ELSE Append(t.disc, t.cur)
  IN IF t.idx < Len(ws_connections)
     THEN [t EXCEPT !.cur = ws_connections[t.idx + 1], !.idx = t.idx + 1, !.disc = disc1,
                    !.tried = t.tried \cup {ws_connections[t.idx + 1]}]
     ELSE [Idle EXCEPT !.disc = disc1]

(* ----------------------------- persistence ---------------------------- *)
\* The file DATA_FILE: absent, text that is not JSON (an interrupted
\* write), JSON whose root is not an object, or a JSON object.  data holds
\* the object's members of the expected JSON type as key/value pairs, bad
\* the keys whose value is of another type (null, a number).
NoFile == [kind |-> "absent", bad |-> {}, data |-> {}]
Truncated == [kind |-> "text", bad |-> {}, data |-> {}]
NotAnObject == [kind |-> "array", bad |-> {}, data |-> {}]

\* chat_history[:50]
ChatTail_oldest(history) ==
  IF Len(history) <= SAVED_CHAT_TAIL THEN history ELSE SubSeq(history, 1, SAVED_CHAT_TAIL)

\* chat_history[-50:]
ChatTail(history) ==
  IF Len(history) <= SAVED_CHAT_TAIL THEN history
  ELSE SubSeq(history, Len(history) - SAVED_CHAT_TAIL + 1, Len(history))

\* json.dump of a dict: a JSON object, its members as key/value pairs
JsonObject(d) == {<<k, d[k]>> : k \in DOMAIN d}

\* json.load of a JSON object: the dict of its members
DictOf(members) ==
  [k \in {m[1] : m \in members} |-> (CHOOSE m \in members : m[1] = k)[2]]

\* json.dump of a dict of dicts, of a list of dicts
JsonTable(d) == JsonObject([k \in DOMAIN d |-> JsonObject(d[k])])
JsonList(l) == [i \in 1..Len(l) |-> JsonObject(l[i])]

\* json.load of them
TableOf(members) == [k \in DOMAIN DictOf(members) |-> DictOf(DictOf(members)[k])]
ListOf(l) == [i \in 1..Len(l) |-> DictOf(l[i])]

\* What save_world writes.  Of the members the model holds no variable
\* for, "relationships" is written as an object; "romance",
\* "active_events", "activity_feed" and "saved_at" are left out.
json_dump(ag, keys, history, handles) ==
  [kind |-> "object", bad |-> {},
   data |-> {<<"agents", JsonTable(ag)>>,
             <<"api_keys", JsonObject(keys)>>,
             <<"relationships", {}>>,
             <<"chat_history", JsonList(ChatTail(history))>>,
             <<"used_twitter_handles", JsonObject(handles)>>}]

\* save_world(): open(DATA_FILE, "w") and json.dump.  A failing call
\* raises with the old file in place (open failed) or with a truncated
\* one (the write failed).
save_world(ag, keys, history, handles) ==
  IF disk_ok
  THEN data_file' = json_dump(ag, keys, history, handles)
  ELSE data_file' \in {data_file, Truncated}

\* The globals load_world assigns, as they are when the process starts.
EmptyWorld ==
  [agents |-> <<>>, api_keys |-> <<>>, chat_history |-> <<>>, used_twitter_handles |-> <<>>]

\* data.get(key, default)
Member(file, key, default) ==
  IF key \in DOMAIN DictOf(file.data) THEN DictOf(file.data)[key] ELSE default

\* load_world(): nothing is read when the file does not exist; json.load
\* raises on text that is not JSON and data.get on a root that is not an
\* object, before any global is assigned; the globals are then assigned
\* one after the other, and ".items()" on a "relationships" member that is
\* not an object raises after agents and api_keys have been assigned.
load_world(file) ==
  IF file.kind # "object" THEN EmptyWorld
  ELSE LET first == [EmptyWorld EXCEPT
                       !.agents = TableOf(Member(file, "agents", {})),
                       !.api_keys = DictOf(Member(file, "api_keys", {}))]
       IN IF "relationships" \in file.bad THEN first
          ELSE [first EXCEPT
                  !.chat_history = ListOf(Member(file, "chat_history", <<>>)),
                  !.used_twitter_handles =
                     DictOf(Member(file, "used_twitter_handles", {}))]

\* The code of a request handler that follows "await broadcast_update":
\* run in the handler's step when no viewer is connected, else when the
\* broadcast returns.
SaveAfterBroadcast(ag, keys, history, handles) ==
  IF ws_connections = <<>>
  THEN save_world(ag, keys, history, handles)
  ELSE UNCHANGED data_file

\* The status of a handler that ends in save_world().
Saved(status) == IF ws_connections = <<>> /\ ~disk_ok THEN "SaveFailed" ELSE status

\* if agent["message_count"] % 10 == 0: save_world()
ChatSaves(ag, agent_id) ==
  agent_id \in DOMAIN ag /\ ag[agent_id].message_count % CHAT_SAVE_EVERY = 0

(* --------------------------- registration flow ------------------------ *)
NameActive_exact(ag, name) == \E a \in DOMAIN ag : ag[a].name = name

\* any(agent["name"].lower() == name.lower() for agent in agents.values())
NameActive(ag, name) == \E a \in DOMAIN ag : Lower(ag[a].name) = Lower(name)

NamePending(name) ==
  \E c \in DOMAIN pending_registrations : Lower(pending_registrations[c]) = Lower(name)

Answer(op, id, status) == [op |-> op, id |-> id, status |-> status]

\* POST /register
register_bot(name) ==
  /\ IF NameLen(name) < 2 \/ NameLen(name) > 20
     THEN /\ result' = Answer("register", Bogus, "BadName")
          /\ UNCHANGED regVars
     ELSE IF NameActive(agents, name) \/ NamePending(name)
     THEN /\ result' = Answer("register", Bogus, "NameTaken")
          /\ UNCHANGED regVars
     ELSE /\ nregs < MaxRegs
          /\ nregs' = nregs + 1
          /\ pending_registrations' = Put(pending_registrations, nregs + 1, name)
          /\ result' = Answer("register", nregs + 1, "ok")
          /\ UNCHANGED <<verified_registrations, used_twitter_handles>>
  /\ UNCHANGED <<worldVars, hubVars, envVars, probeVars, simVars, inbox, storeVars, replyVars, njoins, left_events>>

\* POST /claim/{verification_code}; verify_tweet answers tweet_ok and the
\* handle of the tweet's author.  pending_claims is never filled, so the
\* old flow always answers 404.
verify_claim(code, tweet_ok, handle) ==
  /\ IF code \notin DOMAIN pending_registrations
     THEN /\ result' = Answer("claim", code, "NotFound")
          /\ UNCHANGED regVars
     ELSE IF ~tweet_ok
     THEN /\ result' = Answer("claim", code, "TweetRejected")
          /\ UNCHANGED regVars
     ELSE IF Lower(handle) \in DOMAIN used_twitter_handles
     THEN /\ result' = Answer("claim", code, "HandleUsed")
          /\ UNCHANGED regVars
     ELSE /\ verified_registrations' =
               Put(verified_registrations, code,
                   [name |-> pending_registrations[code], twitter_handle |-> handle])
          /\ pending_registrations' = Drop(pending_registrations, code)
          /\ result' = Answer("claim", code, "ok")
          /\ UNCHANGED <<used_twitter_handles, nregs>>
  /\ UNCHANGED <<worldVars, hubVars, envVars, probeVars, simVars, inbox, storeVars, replyVars, njoins, left_events>>

\* A join that leaves the registration token in place.
UseToken_keep(regs, token) == regs

\* reg = verified_registrations.pop(request.registration_token)
UseToken(regs, token) == Drop(regs, token)

WorldFull_off(ag) == FALSE

\* len(agents) >= MAX_AGENTS
WorldFull(ag) == Cardinality(DOMAIN ag) >= MAX_AGENTS

NewAgent(reg, spawn, t) ==
  [name |-> reg.name, twitter_handle |-> reg.twitter_handle,
   x |-> spawn[1], y |-> spawn[2], last_seen |-> t,
   message_count |-> 0, move_count |-> 0]

\* POST /join; spawn is get_random_spawn()'s choice
join_world(token, spawn) ==
  /\ IF WorldFull(agents)
     THEN /\ result' = Answer("join", token, "WorldFull")
          /\ UNCHANGED <<agents, api_keys, verified_registrations,
                         used_twitter_handles, njoins, tasks, undelivered, data_file>>
     ELSE IF token = EmptyToken \/ token \notin DOMAIN verified_registrations
     THEN /\ result' = Answer("join", token,
                             IF token = EmptyToken THEN "MissingToken" ELSE "InvalidToken")
          /\ UNCHANGED <<agents, api_keys, verified_registrations,
                         used_twitter_handles, njoins, tasks, undelivered, data_file>>
     ELSE LET reg == verified_registrations[token]
              agent_id == njoins + 1
          IN /\ verified_registrations' = UseToken(verified_registrations, token)
             /\ IF NameActive(agents, reg.name)
                THEN /\ result' = Answer("join", token, "NameTaken")
                     /\ UNCHANGED <<agents, api_keys, used_twitter_handles, njoins, tasks,
                                    undelivered, data_file>>
                ELSE /\ njoins' = agent_id
                     /\ used_twitter_handles' =
                          Put(used_twitter_handles, Lower(reg.twitter_handle), agent_id)
                     /\ agents' = Put(agents, agent_id, NewAgent(reg, spawn, now))
                     /\ api_keys' = Put(api_keys, agent_id, agent_id)
                     /\ Broadcast("agent_joined", agent_id)
                     /\ SaveAfterBroadcast(agents', api_keys', chat_history,
                                           used_twitter_handles')
                     /\ result' = Answer("join", agent_id, Saved("ok"))
  /\ IF sims_layer /\ njoins' # njoins
     THEN /\ needs' = Put(needs, njoins', InitialNeeds)
          /\ locations_visited' = Put(locations_visited, njoins', <<>>)
     ELSE UNCHANGED <<needs, locations_visited>>
  /\ inbox' = IF njoins' # njoins THEN Carry(inbox, "agent_joined", njoins', 0) ELSE inbox
  /\ UNCHANGED <<agent_paths, rate_limits, chat_history, pending_registrations, nregs,
                 nsubs, ws_connections, cleanup, envVars, probeVars, sims_layer, activity_feed, active_events, nacts, bootVars, replyVars, left_events>>

(* -------------------------------- move -------------------------------- *)
\* The cardinal branches of move_agent.
Destination(old, direction) ==
  CASE direction = "up" -> <<old[1], clamp(old[2] - 1, 0, MAP_HEIGHT - 1)>>
    [] direction = "down" -> <<old[1], clamp(old[2] + 1, 0, MAP_HEIGHT - 1)>>
    [] direction = "left" -> <<clamp(old[1] - 1, 0, MAP_WIDTH - 1), old[2]>>
    [] direction = "right" -> <<clamp(old[1] + 1, 0, MAP_WIDTH - 1), old[2]>>
    [] OTHER -> old

IsTargetMove(direction, target) == direction = "to" /\ target # NoTarget

\* A "to" branch that goes on with any cached path that has steps left.
TargetPath_reuse(paths, cmap, agent_id, old, target) ==
  LET goal == <<clamp(target[1], 0, MAP_WIDTH - 1), clamp(target[2], 0, MAP_HEIGHT - 1)>>
      current_path == IF agent_id \in DOMAIN paths THEN paths[agent_id] ELSE <<>>
  IN IF current_path = <<>>
     THEN find_path_default(cmap, old[1], old[2], goal[1], goal[2])
     ELSE current_path

\* The "to" branch up to the step it takes: the cached path, or a new one
\* when there is none or its last cell is not the (clamped) target.
TargetPath(paths, cmap, agent_id, old, target) ==
  LET goal == <<clamp(target[1], 0, MAP_WIDTH - 1), clamp(target[2], 0, MAP_HEIGHT - 1)>>
      current_path == IF agent_id \in DOMAIN paths THEN paths[agent_id] ELSE <<>>
  IN IF current_path = <<>> \/ Last(current_path) # goal
     THEN find_path_default(cmap, old[1], old[2], goal[1], goal[2])
     ELSE current_path

\* MoveStep without the collision check.
MoveStep_nocheck(ag, paths, cmap, agent_id, direction, target) ==
  LET old == <<ag[agent_id].x, ag[agent_id].y>>
      path == TargetPath(paths, cmap, agent_id, old, target)
      new == IF IsTargetMove(direction, target)
             THEN (IF path # <<>> THEN Head(path) ELSE old)
             ELSE Destination(old, direction)
      paths1 == IF IsTargetMove(direction, target)
                THEN Put(paths, agent_id, IF path # <<>> THEN Tail(path) ELSE path)
                ELSE paths
  IN IF IsTargetMove(direction, target) /\ path = <<>>
     THEN [status |-> "AtDestination", new |-> old, paths |-> paths1]
     ELSE IF FALSE
     THEN [status |-> "Blocked", new |-> old, paths |-> Drop(paths1, agent_id)]
     ELSE [status |-> "ok", new |-> new, paths |-> paths1]

\* MoveStep that keeps the cached path when the destination is blocked.
MoveStep_keeppath(ag, paths, cmap, agent_id, direction, target) ==
  LET old == <<ag[agent_id].x, ag[agent_id].y>>
      path == TargetPath(paths, cmap, agent_id, old, target)
      new == IF IsTargetMove(direction, target)
             THEN (IF path # <<>> THEN Head(path) ELSE old)
             ELSE Destination(old, direction)
      paths1 == IF IsTargetMove(direction, target)
                THEN Put(paths, agent_id, IF path # <<>> THEN Tail(path) ELSE path)
                ELSE paths
  IN IF IsTargetMove(direction, target) /\ path = <<>>
     THEN [status |-> "AtDestination", new |-> old, paths |-> paths1]
     ELSE IF is_blocked(cmap, new[1], new[2])
     THEN [status |-> "Blocked", new |-> old, paths |-> paths1]
     ELSE [status |-> "ok", new |-> new, paths |-> paths1]

\* What move_agent does once the rate limiter has allowed the call:
\* the outcome, the destination and the path cache.
MoveStep(ag, paths, cmap, agent_id, direction, target) ==
  LET old == <<ag[agent_id].x, ag[agent_id].y>>
      path == TargetPath(paths, cmap, agent_id, old, target)
      new == IF IsTargetMove(direction, target)
             THEN (IF path # <<>> THEN Head(path) ELSE old)
             ELSE Destination(old, direction)
      paths1 == IF IsTargetMove(direction, target)
                THEN Put(paths, agent_id, IF path # <<>> THEN Tail(path) ELSE path)
                ELSE paths
  IN IF IsTargetMove(direction, target) /\ path = <<>>
     THEN [status |-> "AtDestination", new |-> old, paths |-> paths1]
     ELSE IF is_blocked(cmap, new[1], new[2])
     THEN [status |-> "Blocked", new |-> old, paths |-> Drop(paths1, agent_id)]
     ELSE [status |-> "ok", new |-> new, paths |-> paths1]

\* The reply of a successful move, built after "await broadcast_update":
\* the position read from the agent's dict and the other agents of the
\* world within Manhattan distance 5 of it.
NearbyAgents(ag, agent_id, pos) ==
  {other_id \in DOMAIN ag \ {agent_id} :
     Abs(ag[other_id].x - pos[1]) + Abs(ag[other_id].y - pos[2]) <= NEARBY_RADIUS}

MoveReply(ag, agent_id, committed, pos) ==
  [id |-> agent_id, committed |-> committed, position |-> pos,
   nearby |-> NearbyAgents(ag, agent_id, pos)]

\* The moves suspended in their broadcast hold the agent's dict, not a
\* copy: a later move of the same agent is visible through it.
Realias(mv, agent_id, pos) ==
  [s \in Slots |-> IF mv[s].agent = agent_id THEN [mv[s] EXCEPT !.last = pos] ELSE mv[s]]

\* A counter that is left as it is.
Increment_none(n) == n

\* agent["move_count"] += 1, agent["message_count"] += 1
Increment(n) == n + 1

\* POST /move
move_agent(agent_id, direction, target) ==
  /\ rate_limits' = RateAfterCall(agents, rate_limits, agent_id, "move", now)
  /\ IF agent_id \notin DOMAIN agents
     THEN /\ result' = Answer("move", agent_id, "NotFound")
          /\ UNCHANGED <<agents, agent_paths, tasks, undelivered, replyVars>>
     ELSE /\ IF ~RateAllowed(rate_limits, agent_id, "move", now)
             THEN /\ result' = Answer("move", agent_id, "RateLimited")
                  /\ UNCHANGED <<agents, agent_paths, tasks, undelivered, replyVars>>
             ELSE LET step == MoveStep(agents, agent_paths, COLLISION_MAP,
                                       agent_id, direction, target)
                  IN /\ agent_paths' = step.paths
                     /\ result' = Answer("move", agent_id, step.status)
                     /\ IF step.status = "ok"
                        THEN /\ agents[agent_id].move_count < MaxMoves
                             /\ agents' = [agents EXCEPT
                                  ![agent_id].x = step.new[1],
                                  ![agent_id].y = step.new[2],
                                  ![agent_id].last_seen = now,
                                  ![agent_id].move_count = Increment(@)]
                             /\ Broadcast("agent_moved", agent_id)
                             /\ IF ws_connections = <<>>
                                THEN /\ moving' = Realias(moving, agent_id, step.new)
                                     /\ move_reply' = MoveReply(agents', agent_id,
                                                                step.new, step.new)
                                ELSE /\ moving' = [Realias(moving, agent_id, step.new)
                                          EXCEPT ![FreeSlot] =
                                            [agent |-> agent_id, committed |-> step.new,
                                             last |-> step.new]]
                                     /\ move_reply' = move_reply
                        ELSE UNCHANGED <<agents, tasks, undelivered, replyVars>>
  /\ IF agent_id \in DOMAIN needs /\ agents' # agents
     THEN LET x == agents'[agent_id].x
              y == agents'[agent_id].y
          IN /\ locations_visited' =
                  [locations_visited EXCEPT ![agent_id] = VisitedAfterMove(@, x, y)]
             /\ activity_feed' = FeedAfterMove(activity_feed, locations_visited[agent_id],
                                               agent_id, x, y)
             /\ needs' = [needs EXCEPT ![agent_id] = NeedsAfterMove(@, x, y)]
     ELSE UNCHANGED <<needs, locations_visited, activity_feed>>
  /\ inbox' = IF agents' # agents
               THEN Carry(inbox, "agent_moved", agent_id, agents'[agent_id].move_count)
               ELSE inbox
  /\ UNCHANGED <<api_keys, chat_history, regVars, njoins, nsubs, ws_connections,
                 cleanup, envVars, probeVars, sims_layer, active_events, nacts, storeVars, left_events>>

(* -------------------------------- chat -------------------------------- *)
\* chat_history.append(chat_msg); if len(chat_history) > MAX_CHAT_HISTORY: pop(0)
AppendChat_newest(history, msg) ==
  LET h == Append(history, msg)
  IN IF Len(h) > MAX_CHAT_HISTORY THEN SubSeq(h, 1, Len(h) - 1) ELSE h

\* chat_history.append(chat_msg), then pop(0) when the list is over-long
AppendChat(history, msg) ==
  LET h == Append(history, msg)
  IN IF Len(h) > MAX_CHAT_HISTORY THEN Tail(h) ELSE h

\* POST /chat
send_chat(agent_id, message) ==
  /\ rate_limits' = RateAfterCall(agents, rate_limits, agent_id, "chat", now)
  /\ IF agent_id \notin DOMAIN agents
     THEN /\ result' = Answer("chat", agent_id, "NotFound")
          /\ UNCHANGED <<agents, chat_history, tasks, undelivered, data_file>>
     ELSE /\ IF ~RateAllowed(rate_limits, agent_id, "chat", now)
             THEN /\ result' = Answer("chat", agent_id, "RateLimited")
                  /\ UNCHANGED <<agents, chat_history, tasks, undelivered, data_file>>
             ELSE IF MsgLen(message) > 500
             THEN /\ result' = Answer("chat", agent_id, "TooLong")
                  /\ UNCHANGED <<agents, chat_history, tasks, undelivered, data_file>>
             ELSE IF StripLen(message) = 0
             THEN /\ result' = Answer("chat", agent_id, "Empty")
                  /\ UNCHANGED <<agents, chat_history, tasks, undelivered, data_file>>
             ELSE /\ agents[agent_id].message_count < MaxMsgs
                  /\ agents' = [agents EXCEPT
                       ![agent_id].last_seen = now,
                       ![agent_id].message_count = Increment(@)]
                  /\ chat_history' = AppendChat(chat_history,
                       [from_id |-> agent_id, message |-> message, timestamp |-> now,
                        x |-> agents[agent_id].x, y |-> agents[agent_id].y])
                  /\ Broadcast("chat", agent_id)
                  /\ IF ChatSaves(agents', agent_id)
                     THEN /\ SaveAfterBroadcast(agents', api_keys, chat_history',
                                                used_twitter_handles)
                          /\ result' = Answer("chat", agent_id, Saved("ok"))
                     ELSE /\ UNCHANGED data_file
                          /\ result' = Answer("chat", agent_id, "ok")
  /\ needs' = IF agent_id \in DOMAIN needs /\ agents' # agents
               THEN [needs EXCEPT ![agent_id].social = Raised(@, Points(5))]
               ELSE needs
  /\ UNCHANGED <<api_keys, agent_paths, regVars, njoins, nsubs, ws_connections,
                 cleanup, envVars, probeVars, sims_layer, inbox, locations_visited, activity_feed, active_events, nacts, bootVars, replyVars, left_events>>

(* ---------------------- activities, emotes, events -------------------- *)
ACTIVITIES ==
  {"exploring", "chatting", "resting", "thinking", "socializing", "dating", "partying",
   "working"}

\* set_activity, "Activities affect needs"
NeedsAfterActivity(nd, activity) ==
  IF activity = "resting" THEN [nd EXCEPT !.energy = Raised(@, Points(10))]
  ELSE IF activity = "exploring" THEN [nd EXCEPT !.fun = Raised(@, Points(5))]
  ELSE IF activity = "socializing" THEN [nd EXCEPT !.social = Raised(@, Points(3))]
  ELSE nd

\* POST /activity
set_activity(agent_id, activity) ==
  /\ nacts < MaxActs
  /\ IF agent_id \notin DOMAIN agents
     THEN /\ result' = Answer("activity", agent_id, "NotFound")
          /\ UNCHANGED <<agents, needs, tasks, undelivered>>
     ELSE IF activity \notin ACTIVITIES
     THEN /\ result' = Answer("activity", agent_id, "Invalid")
          /\ UNCHANGED <<agents, needs, tasks, undelivered>>
     ELSE /\ agents' = [agents EXCEPT ![agent_id].last_seen = now]
          /\ needs' = IF agent_id \in DOMAIN needs
                      THEN [needs EXCEPT ![agent_id] = NeedsAfterActivity(@, activity)]
                      ELSE needs
          /\ Broadcast("agent_activity", agent_id)
          /\ result' = Answer("activity", agent_id, "ok")
  /\ nacts' = IF result'.status = "ok" THEN nacts + 1 ELSE nacts
  /\ UNCHANGED <<api_keys, agent_paths, rate_limits, chat_history, regVars, njoins, nsubs,
                 ws_connections, cleanup, envVars, probeVars, storeVars, replyVars,
                 left_events, sims_layer, inbox, locations_visited, activity_feed, active_events>>

\* POST /action.  The broadcast carries the emote's name; the effects on
\* the agent's own needs are applied when the broadcast has returned.
perform_action(agent_id, action, target_id) ==
  /\ nacts < MaxActs
  /\ IF agent_id \notin DOMAIN agents
     THEN /\ result' = Answer("action", agent_id, "NotFound")
          /\ UNCHANGED <<needs, tasks, undelivered>>
     ELSE IF action \notin DOMAIN Emotes
     THEN /\ result' = Answer("action", agent_id, "Unknown")
          /\ UNCHANGED <<needs, tasks, undelivered>>
     ELSE IF /\ Emotes[action].requires_location # "none"
             /\ get_agent_location(agents[agent_id].x, agents[agent_id].y).id
                  # Emotes[action].requires_location
     THEN /\ result' = Answer("action", agent_id, "WrongLocation")
          /\ UNCHANGED <<needs, tasks, undelivered>>
     ELSE LET hugged == IF target_id \in DOMAIN agents /\ action = "hug"
                           /\ target_id \in DOMAIN needs
                        THEN NeedsAfterHug(needs, target_id)
                        ELSE needs
          IN /\ Broadcast(action, agent_id)
             /\ needs' = IF ws_connections = <<>>
                         THEN NeedsAfterAction(hugged, agent_id, action)
                         ELSE hugged
             /\ result' = Answer("action", agent_id, "ok")
  /\ nacts' = IF result'.status = "ok" THEN nacts + 1 ELSE nacts
  /\ UNCHANGED <<worldVars, regVars, njoins, nsubs, ws_connections, cleanup, envVars,
                 probeVars, storeVars, replyVars, left_events, sims_layer, inbox,
                 locations_visited, activity_feed, active_events>>

\* POST /romance, the branches that change a need: flirt and breakup.
\* ask_out, propose and marry work on the relationship tables only.
romance_action(agent_id, target_id, action) ==
  /\ nacts < MaxActs
  /\ IF agent_id \notin DOMAIN agents \/ target_id \notin DOMAIN agents
     THEN /\ result' = Answer("romance", agent_id, "NotFound")
          /\ UNCHANGED needs
     ELSE IF agent_id = target_id
     THEN /\ result' = Answer("romance", agent_id, "Self")
          /\ UNCHANGED needs
     ELSE IF Abs(agents[agent_id].x - agents[target_id].x)
               + Abs(agents[agent_id].y - agents[target_id].y) > NEARBY_RADIUS
     THEN /\ result' = Answer("romance", agent_id, "TooFar")
          /\ UNCHANGED needs
     ELSE IF action \notin {"flirt", "breakup"}
     THEN /\ result' = Answer("romance", agent_id, "Invalid")
          /\ UNCHANGED needs
     ELSE /\ result' = Answer("romance", agent_id, "ok")
          /\ needs' =
               IF {agent_id, target_id} \subseteq DOMAIN needs
               THEN IF action = "flirt"
                    THEN [needs EXCEPT ![agent_id].romance = Raised(@, Points(5)),
                                       ![target_id].romance = Raised(@, Points(3))]
                    ELSE [needs EXCEPT ![agent_id].romance = Reduced(@, Points(20)),
                                       ![target_id].romance = Reduced(@, Points(20))]
               ELSE needs
  /\ nacts' = IF result'.status = "ok" THEN nacts + 1 ELSE nacts
  /\ UNCHANGED <<worldVars, regVars, njoins, hubVars, envVars, probeVars, storeVars,
                 replyVars, left_events, sims_layer, inbox, locations_visited, activity_feed,
                 active_events>>

EVENT_TYPES == {"party", "concert", "meetup", "speed_dating", "festival", "workshop"}

\* POST /events/create
create_event(agent_id, event_type) ==
  /\ nacts < MaxActs
  /\ IF agent_id \notin DOMAIN agents
     THEN /\ result' = Answer("event", agent_id, "NotFound")
          /\ UNCHANGED <<needs, active_events, tasks, undelivered>>
     ELSE IF event_type \notin EVENT_TYPES
     THEN /\ result' = Answer("event", agent_id, "Invalid")
          /\ UNCHANGED <<needs, active_events, tasks, undelivered>>
     ELSE /\ Len(active_events) < MaxEvents
          /\ active_events' = Append(active_events,
                                     [host_id |-> agent_id, attendees |-> {agent_id}])
          /\ needs' = IF agent_id \in DOMAIN needs
                      THEN [needs EXCEPT ![agent_id].social = Raised(@, Points(10))]
                      ELSE needs
          /\ Broadcast("event_created", agent_id)
          /\ result' = Answer("event", agent_id, "ok")
  /\ nacts' = IF result'.status = "ok" THEN nacts + 1 ELSE nacts
  /\ UNCHANGED <<worldVars, regVars, njoins, nsubs, ws_connections, cleanup, envVars,
                 probeVars, storeVars, replyVars, left_events, sims_layer, inbox,
                 locations_visited, activity_feed>>

\* POST /events/{event_id}/join; event_id is the event's place in the list
join_event(event_id, agent_id) ==
  /\ nacts < MaxActs
  /\ IF agent_id \notin DOMAIN agents \/ event_id \notin DOMAIN active_events
     THEN /\ result' = Answer("attend", agent_id, "NotFound")
          /\ UNCHANGED <<needs, active_events, tasks, undelivered>>
     ELSE IF agent_id \in active_events[event_id].attendees
     THEN /\ result' = Answer("attend", agent_id, "AlreadyAttending")
          /\ UNCHANGED <<needs, active_events, tasks, undelivered>>
     ELSE /\ active_events' = [active_events EXCEPT ![event_id].attendees = @ \cup {agent_id}]
          /\ needs' = IF agent_id \in DOMAIN needs
                      THEN [needs EXCEPT ![agent_id].social = Raised(@, Points(5)),
                                         ![agent_id].fun = Raised(@, Points(5))]
                      ELSE needs
          /\ Broadcast("event_joined", agent_id)
          /\ result' = Answer("attend", agent_id, "ok")
  /\ nacts' = IF result'.status = "ok" THEN nacts + 1 ELSE nacts
  /\ UNCHANGED <<worldVars, regVars, njoins, nsubs, ws_connections, cleanup, envVars,
                 probeVars, storeVars, replyVars, left_events, sims_layer, inbox,
                 locations_visited, activity_feed>>

\* decay_needs wakes from asyncio.sleep(60) and runs one pass.
decay_needs ==
  /\ nacts < MaxActs
  /\ nacts' = nacts + 1
  /\ needs' = [a \in DOMAIN needs |->
                 [needs[a] EXCEPT !.energy = Reduced(@, Points(1)),
                                  !.social = Reduced(@, 1)]]
  /\ UNCHANGED <<worldVars, regVars, njoins, hubVars, envVars, probeVars, storeVars,
                 replyVars, left_events, sims_layer, inbox, locations_visited, activity_feed,
                 active_events, result>>

(* ----------------------------- leave, evict --------------------------- *)
\* The key table left as it is.
DelApiKey_none(keys, agent_id) == keys

\* for key, aid in list(api_keys.items()): if aid == agent_id: del; break
DelApiKey(keys, agent_id) ==
  LET mine == {k \in DOMAIN keys : keys[k] = agent_id}
  IN IF mine = {} THEN keys ELSE Drop(keys, SetMin(mine))

\* DELETE /leave/{agent_id}
leave_world(agent_id) ==
  /\ IF agent_id \notin DOMAIN agents
     THEN /\ result' = Answer("leave", agent_id, "NotFound")
          /\ UNCHANGED <<agents, api_keys, tasks, undelivered, left_events, data_file>>
     ELSE /\ agents' = Drop(agents, agent_id)
          /\ api_keys' = DelApiKey(api_keys, agent_id)
          /\ left_events' = [left_events EXCEPT ![agent_id] = @ + 1]
          /\ Broadcast("agent_left", agent_id)
          /\ SaveAfterBroadcast(agents', api_keys', chat_history, used_twitter_handles)
          /\ result' = Answer("leave", agent_id, Saved("ok"))
  /\ needs' = Living(needs, agents')
  /\ locations_visited' = Living(locations_visited, agents')
  /\ inbox' = IF agents' # agents
               THEN Carry(inbox, "agent_left", agent_id, agents[agent_id].move_count)
               ELSE inbox
  /\ UNCHANGED <<agent_paths, rate_limits, chat_history, regVars, njoins, nsubs,
                 ws_connections, cleanup, envVars, probeVars, sims_layer, activity_feed, active_events, nacts, bootVars, replyVars>>

RECURSIVE SortedSeq(_)
\* The keys of a dict in insertion order (agent ids are issued in order).
SortedSeq(S) == IF S = {} THEN <<>> ELSE <<SetMin(S)>> \o SortedSeq(S \ {SetMin(S)})

\* now - a["last_seen"] > 300
Inactive(ag, t) == {a \in DOMAIN ag : t - ag[a].last_seen > Seconds(300)}

Sleeping ==
  [kind |-> "cleanup", pc |-> "sleep", inactive |-> <<>>, agent |-> 0, cur |-> 0,
   idx |-> 0, disc |-> <<>>, tried |-> {}, since |-> 0]

RECURSIVE RunCleanup(_, _, _, _, _)
\* The body of "for agent_id in inactive", run until it is suspended in a
\* broadcast (agent # 0) or the list is done (agent = 0).
RunCleanup(ag, keys, lev, conns, list) ==
  IF list = <<>>
  THEN [agents |-> ag, api_keys |-> keys, left_events |-> lev, rest |-> <<>>, agent |-> 0]
  ELSE LET agent_id == Head(list)
       IN IF agent_id \notin DOMAIN ag
          THEN RunCleanup(ag, keys, lev, conns, Tail(list))
          ELSE LET ag1 == Drop(ag, agent_id)
                   keys1 == DelApiKey(keys, agent_id)
                   lev1 == [lev EXCEPT ![agent_id] = @ + 1]
               IN IF conns = <<>>
                  THEN RunCleanup(ag1, keys1, lev1, conns, Tail(list))
                  ELSE [agents |-> ag1, api_keys |-> keys1, left_events |-> lev1,
                        rest |-> Tail(list), agent |-> agent_id]

\* The cleanup coroutine after a run of its loop body.
CleanupAfter(run, conns) ==
  IF run.agent = 0 THEN Sleeping
  ELSE [kind |-> "cleanup", pc |-> "send", inactive |-> run.rest, agent |-> run.agent,
        cur |-> conns[1], idx |-> 1, disc |-> <<>>, tried |-> {conns[1]}, since |-> nsubs]

\* cleanup_inactive_agents wakes from asyncio.sleep(60) and runs a pass.
CleanupWake ==
  /\ cleanup.pc = "sleep"
  /\ LET run == RunCleanup(agents, api_keys, left_events, ws_connections,
                           SortedSeq(Inactive(agents, now)))
     IN /\ agents' = run.agents
        /\ api_keys' = run.api_keys
        /\ left_events' = run.left_events
        /\ cleanup' = CleanupAfter(run, ws_connections)
        /\ undelivered' = IF run.agent # 0
                          THEN DueAfterStart(undelivered, ws_connections)
                          ELSE undelivered
  /\ needs' = Living(needs, agents')
  /\ locations_visited' = Living(locations_visited, agents')
  /\ UNCHANGED <<agent_paths, rate_limits, chat_history, regVars, njoins, nsubs,
                 ws_connections, tasks, envVars, probeVars, sims_layer, inbox, activity_feed, active_events, nacts, storeVars, replyVars, result>>

\* A send of the cleanup pass's broadcast returns or raises.
CleanupSendDone(ok) ==
  /\ cleanup.pc = "send"
  /\ cleanup.cur \notin stalled
  /\ LET t == AfterSend(cleanup, ok)
     IN IF t.kind # "idle"
        THEN /\ cleanup' = [cleanup EXCEPT !.cur = t.cur, !.idx = t.idx, !.disc = t.disc,
                                           !.tried = t.tried]
             /\ undelivered' = DueAfterSend(undelivered, t, cleanup.since)
             /\ UNCHANGED <<agents, api_keys, left_events, ws_connections>>
        ELSE LET conns == PruneDisconnected(ws_connections, t.disc)
                 run == RunCleanup(agents, api_keys, left_events, conns, cleanup.inactive)
             IN /\ ws_connections' = conns
                /\ agents' = run.agents
                /\ api_keys' = run.api_keys
                /\ left_events' = run.left_events
                /\ cleanup' = CleanupAfter(run, conns)
                /\ undelivered' = IF run.agent # 0
                                  THEN DueAfterStart(undelivered, conns)
                                  ELSE undelivered
  /\ needs' = Living(needs, agents')
  /\ locations_visited' = Living(locations_visited, agents')
  /\ UNCHANGED <<agent_paths, rate_limits, chat_history, regVars, njoins, nsubs,
                 tasks, envVars, probeVars, sims_layer, inbox, activity_feed, active_events, nacts, storeVars, replyVars, result>>

\* Whether the handler suspended in broadcast t calls save_world() once
\* the broadcast has returned: join_world and leave_world do, send_chat
\* on every tenth message of the agent.
SavesOnReturn(t) ==
  \/ t.kind \in {"agent_joined", "agent_left"}
  \/ t.kind = "chat" /\ ChatSaves(agents, t.agent)

\* A send of a request handler's broadcast returns or raises; the handler
\* goes on when the last one has.
SendDone(s, ok) ==
  /\ tasks[s] # Idle
  /\ tasks[s].cur \notin stalled
  /\ LET t == AfterSend(tasks[s], ok)
     IN IF t.kind # "idle"
        THEN /\ tasks' = [tasks EXCEPT ![s] = t]
             /\ undelivered' = DueAfterSend(undelivered, t, tasks[s].since)
             /\ UNCHANGED ws_connections
        ELSE /\ tasks' = [tasks EXCEPT ![s] = Idle]
             /\ ws_connections' = PruneDisconnected(ws_connections, t.disc)
             /\ UNCHANGED undelivered
  /\ IF AfterSend(tasks[s], ok).kind = "idle" /\ moving[s] # NoMove
     THEN /\ move_reply' = MoveReply(agents, moving[s].agent, moving[s].committed,
                                     moving[s].last)
          /\ moving' = [moving EXCEPT ![s] = NoMove]
     ELSE UNCHANGED replyVars
  /\ IF AfterSend(tasks[s], ok).kind = "idle" /\ SavesOnReturn(tasks[s])
     THEN /\ save_world(agents, api_keys, chat_history, used_twitter_handles)
          /\ result' = IF disk_ok THEN result
                       ELSE Answer(tasks[s].kind, tasks[s].agent, "SaveFailed")
     ELSE UNCHANGED <<data_file, result>>
  /\ needs' = IF AfterSend(tasks[s], ok).kind = "idle" /\ tasks[s].kind \in DOMAIN Emotes
               THEN NeedsAfterAction(needs, tasks[s].agent, tasks[s].kind)
               ELSE needs
  /\ inbox' = IF inbox.on
               THEN [inbox EXCEPT
                       !.got = Received(@, tasks[s].cur, inbox.sent[s], ok),
                       !.sent[s] = IF AfterSend(tasks[s], ok).kind = "idle" THEN NoEvent ELSE @]
               ELSE inbox
  /\ UNCHANGED <<worldVars, regVars, njoins, nsubs, cleanup, envVars, probeVars, sims_layer, locations_visited, activity_feed, active_events, nacts, bootVars, left_events>>

(* ------------------------------- viewers ------------------------------ *)
\* websocket_endpoint: accept, ws_connections.append(websocket), and the
\* call of send_text with the world_state snapshot, which is built in the
\* same step: no broadcast calls send_text on the websocket before it.
\* Events published from here on are owed to the viewer.
SubscribeUpTo(cap) ==
  /\ nsubs < cap
  /\ nsubs' = nsubs + 1
  /\ ws_connections' = Append(ws_connections, nsubs + 1)
  /\ undelivered' = Put(undelivered, nsubs + 1, 0)
  /\ inbox' = IF inbox.on THEN [inbox EXCEPT !.got = Put(@, nsubs + 1, <<>>)] ELSE inbox
  /\ UNCHANGED <<worldVars, regVars, njoins, tasks, cleanup, envVars, probeVars, simVars, storeVars, replyVars, left_events, result>>

Subscribe == SubscribeUpTo(MaxSubs)

\* except WebSocketDisconnect: if websocket in ws_connections: remove
Disconnect(ws) ==
  /\ InSeq(ws_connections, ws)
  /\ ws_connections' = RemoveFirst(ws_connections, ws)
  /\ undelivered' = Drop(undelivered, ws)
  /\ stalled' = stalled \ {ws}
  /\ UNCHANGED <<worldVars, regVars, njoins, nsubs, tasks, cleanup, now, ticks,
                 COLLISION_MAP, probeVars, simVars, inbox, storeVars, replyVars, left_events, result>>

\* The peer of a connected viewer stops reading: "await ws.send_text(message)"
\* carries no timeout, so a send to it stays pending until the peer goes away.
Stall(ws) ==
  /\ InSeq(ws_connections, ws)
  /\ ws \notin stalled
  /\ stalled' = stalled \cup {ws}
  /\ UNCHANGED <<worldVars, regVars, njoins, hubVars, now, ticks, COLLISION_MAP,
                 probeVars, simVars, inbox, storeVars, replyVars, left_events, result>>

(* ------------------------- snapshot and startup ----------------------- *)
\* periodic_save wakes from asyncio.sleep(300) and calls save_world().  The
\* loop body has no exception handler: a call that raises ends the task.
PeriodicSave ==
  /\ saver = "sleep"
  /\ save_world(agents, api_keys, chat_history, used_twitter_handles)
  /\ saver' = IF disk_ok THEN "sleep" ELSE "ended"
  /\ UNCHANGED <<worldVars, regVars, njoins, hubVars, envVars, probeVars, simVars, inbox, replyVars,
                 disk_ok, boots, left_events, result>>

\* Writes to DATA_FILE begin to fail (ok = FALSE) or succeed again.
Disk(ok) ==
  /\ disk_ok # ok
  /\ disk_ok' = ok
  /\ UNCHANGED <<worldVars, regVars, njoins, hubVars, envVars, probeVars, simVars, inbox, replyVars,
                 data_file, boots, saver, left_events, result>>

\* The process is started again: the module's globals are empty, the
\* connections and coroutines of the old process are gone, and startup()
\* runs load_collision_map, load_world and creates the background tasks.
\* Identifiers (uuid4, websocket objects) are not issued twice.
Restart ==
  /\ boots < MaxBoots
  /\ boots' = boots + 1
  /\ LET world == load_world(data_file)
     IN /\ agents' = world.agents
        /\ api_keys' = world.api_keys
        /\ chat_history' = world.chat_history
        /\ used_twitter_handles' = world.used_twitter_handles
  /\ agent_paths' = <<>>
  /\ rate_limits' = <<>>
  /\ pending_registrations' = <<>>
  /\ verified_registrations' = <<>>
  /\ ws_connections' = <<>>
  /\ tasks' = [s \in Slots |-> Idle]
  /\ undelivered' = <<>>
  /\ cleanup' = Sleeping
  /\ stalled' = {}
  /\ moving' = [s \in Slots |-> NoMove]
  /\ move_reply' = NoReply
  /\ saver' = "sleep"
  /\ result' = Answer("startup", Bogus, "ok")
  /\ needs' = Living(needs, agents')
  /\ locations_visited' = Living(locations_visited, agents')
  /\ UNCHANGED <<now, ticks, COLLISION_MAP, nregs, njoins, nsubs, probeVars, sims_layer, inbox, activity_feed, active_events, nacts, data_file,
                 disk_ok, left_events>>

\* DATA_FILE is damaged from outside the process (an edit, a copy cut
\* short, a file of another version): it is no longer JSON, its root is
\* no longer an object, or its "relationships" member is no longer one.
FileParts == {"text", "root", "relationships"}

Corrupt(part) ==
  /\ data_file.kind = "object"
  /\ data_file.bad = {}
  /\ data_file' = CASE part = "text" -> Truncated
                    [] part = "root" -> NotAnObject
                    [] OTHER -> [data_file EXCEPT
                                   !.bad = {part},
                                   !.data = {m \in @ : m[1] # part}]
  /\ UNCHANGED <<worldVars, regVars, njoins, hubVars, envVars, probeVars, simVars, inbox, replyVars,
                 bootVars, left_events, result>>

(* -------------------------------- clock ------------------------------- *)
TickUpTo(d, cap) ==
  /\ ticks < cap
  /\ ticks' = ticks + 1
  /\ now' = now + d
  /\ UNCHANGED <<COLLISION_MAP, probeVars, simVars, inbox, storeVars, replyVars, stalled, worldVars, regVars, njoins, hubVars,
                 left_events, result>>

Tick(d) == TickUpTo(d, MaxTicks)

(* ----------------------------- path probe ---------------------------- *)
\* One call find_path(start, goal, max_steps) on the loaded map.
FindPath(start, goal, cap) ==
  /\ path_probe = NoProbe
  /\ LET run == find_path_run(COLLISION_MAP, start[1], start[2], goal[1], goal[2], cap)
     IN path_probe' = [start |-> start, goal |-> goal, cap |-> cap,
                       path |-> run.path, expanded |-> run.expanded,
                       returned |-> run.returned,
                       goal_expanded |-> run.goal_expanded]
  /\ UNCHANGED <<worldVars, regVars, hubVars, envVars, replyVars, njoins, left_events,
                 block_probe, simVars, inbox, storeVars, result>>

\* One call of is_blocked(x, y).
IsBlocked(x, y) ==
  /\ block_probe = NoBlockProbe
  /\ block_probe' = [called |-> TRUE, x |-> x, y |-> y,
                     blocked |-> is_blocked(COLLISION_MAP, x, y)]
  /\ UNCHANGED <<worldVars, regVars, hubVars, envVars, replyVars, njoins, left_events,
                 path_probe, simVars, inbox, storeVars, result>>

(* --------------------------- specifications --------------------------- *)
\* The state after startup() with no DATA_FILE on disk; layer says whether
\* the behaviour observes the needs, visits and events of its agents,
\* watch says whether the behaviour records what its viewers receive.
InitObserved(maps, layer, watch) ==
  /\ now = 0
  /\ ticks = 0
  /\ COLLISION_MAP \in maps
  /\ agents = <<>>
  /\ api_keys = <<>>
  /\ agent_paths = <<>>
  /\ rate_limits = <<>>
  /\ chat_history = <<>>
  /\ pending_registrations = <<>>
  /\ verified_registrations = <<>>
  /\ used_twitter_handles = <<>>
  /\ nregs = 0
  /\ njoins = 0
  /\ nsubs = 0
  /\ ws_connections = <<>>
  /\ tasks = [s \in Slots |-> Idle]
  /\ undelivered = <<>>
  /\ cleanup = Sleeping
  /\ left_events = [a \in Ids |-> 0]
  /\ stalled = {}
  /\ path_probe = NoProbe
  /\ block_probe = NoBlockProbe
  /\ moving = [s \in Slots |-> NoMove]
  /\ move_reply = NoReply
  /\ data_file = NoFile
  /\ disk_ok = TRUE
  /\ boots = 0
  /\ saver = "sleep"
  /\ sims_layer = layer
  /\ needs = <<>>
  /\ locations_visited = <<>>
  /\ activity_feed = <<>>
  /\ active_events = <<>>
  /\ nacts = 0
  /\ inbox = [on |-> watch, got |-> <<>>, sent |-> [s \in Slots |-> NoEvent]]
  /\ result = Answer("none", Bogus, "none")

InitLayer(maps, layer) == InitObserved(maps, layer, FALSE)

InitWith(maps) == InitLayer(maps, FALSE)

Init == InitWith(CollisionMaps)

\* Movement on a world without viewers: every handler runs to completion
\* in one step.  One name is registered over and over, so at most one agent
\* is active at a time; the clock advances by the chat cooldown.
MoveNames == {"Al"}
MoveCodes == {1}
MoveSteps == {Seconds(2)}
Cardinals == {"up", "down", "left", "right"}

Next ==
  \/ \E name \in MoveNames : register_bot(name)
  \/ \E code \in MoveCodes : verify_claim(code, TRUE, "h1")
  \/ \E token \in MoveCodes \cup {Bogus, EmptyToken}, i \in DOMAIN SPAWN_POINTS :
        join_world(token, SPAWN_POINTS[i])
  \/ \E agent_id \in Ids, direction \in Cardinals \cup {"jump", "to"} :
        move_agent(agent_id, direction, NoTarget)
  \/ \E agent_id \in Ids, target \in Targets : move_agent(agent_id, "to", target)
  \/ \E agent_id \in Ids : leave_world(agent_id)
  \/ \E d \in MoveSteps : Tick(d)

Spec == Init /\ [][Next]_vars

\* The rate limiter seen through /move and /chat: one agent, clock
\* advances of 0.1 s and 1.9 s, so that calls fall just short of, on and
\* past both cooldowns.
RateSteps == {1, Seconds(2) - 1}
RateTargets == {<<2, 2>>}

NextRate ==
  \/ \E name \in MoveNames : register_bot(name)
  \/ \E code \in MoveCodes : verify_claim(code, TRUE, "h1")
  \/ \E token \in MoveCodes : join_world(token, SPAWN_POINTS[1])
  \/ \E agent_id \in Ids : move_agent(agent_id, "right", NoTarget)
  \/ \E agent_id \in Ids, target \in RateTargets : move_agent(agent_id, "to", target)
  \/ \E agent_id \in Ids, message \in Messages : send_chat(agent_id, message)
  \/ \E agent_id \in Ids : leave_world(agent_id)
  \/ \E d \in RateSteps : Tick(d)

SpecRate == Init /\ [][NextRate]_vars

\* Registration, join and leave with a viewer connected, so that handlers
\* are suspended in their broadcasts and interleave.  No tile layer is
\* loaded.
InitNoMap == Init /\ COLLISION_MAP = <<>>
JoinNames == {"Bob", "bob", "Al"}
JoinHandles == {"h1", "h2"}

NextJoin ==
  \/ \E name \in JoinNames : register_bot(name)
  \/ \E code \in Ids, handle \in JoinHandles : verify_claim(code, TRUE, handle)
  \/ \E token \in Ids \cup {Bogus} : join_world(token, SPAWN_POINTS[1])
  \/ \E agent_id \in Ids : leave_world(agent_id)
  \/ \E s \in Slots, ok \in BOOLEAN : SendDone(s, ok)
  \/ Subscribe
  \/ \E ws \in 1..MaxSubs : Disconnect(ws)

SpecJoin == InitNoMap /\ [][NextJoin]_vars

\* The clean-up loop against leave: two registrations, a viewer, and clock
\* advances past the inactivity timeout.
EvictNames == {"Al", "Bob"}
EvictCodes == {1, 2}
EvictSteps == {Seconds(300) + 1}
HandleOf(code) == IF code = 1 THEN "h1" ELSE "h2"

NextEvict ==
  \/ \E name \in EvictNames : register_bot(name)
  \/ \E code \in EvictCodes : verify_claim(code, TRUE, HandleOf(code))
  \/ \E token \in EvictCodes : join_world(token, SPAWN_POINTS[1])
  \/ \E agent_id \in Ids : leave_world(agent_id)
  \/ CleanupWake
  \/ \E ok \in BOOLEAN : CleanupSendDone(ok)
  \/ \E s \in Slots, ok \in BOOLEAN : SendDone(s, ok)
  \/ Subscribe
  \/ \E ws \in 1..MaxSubs : Disconnect(ws)
  \/ \E ws \in 1..MaxSubs : Stall(ws)
  \/ \E d \in EvictSteps : TickUpTo(d, MaxEvictTicks)

SpecEvict == InitNoMap /\ [][NextEvict]_vars

\* The same, with what asyncio's scheduling provides: the loop's sleep
\* ends, and a send to a peer that takes data returns or raises.  A send to
\* a stalled peer need not end, and a peer need not disconnect.
SpecEvictFair ==
  /\ SpecEvict
  /\ WF_vars(CleanupWake)
  /\ WF_vars(\E ok \in BOOLEAN : CleanupSendDone(ok))
  /\ WF_vars(\E s \in Slots, ok \in BOOLEAN : SendDone(s, ok))

\* The clean-up loop against requests that refresh last_seen: two agents,
\* a viewer, moves, and a clock advance past the inactivity timeout.
RefreshMovers == {2}

NextRefresh ==
  \/ \E name \in EvictNames : register_bot(name)
  \/ \E code \in EvictCodes : verify_claim(code, TRUE, HandleOf(code))
  \/ \E token \in EvictCodes : join_world(token, SPAWN_POINTS[1])
  \/ \E agent_id \in RefreshMovers : move_agent(agent_id, "right", NoTarget)
  \/ CleanupWake
  \/ \E ok \in BOOLEAN : CleanupSendDone(ok)
  \/ \E s \in Slots, ok \in BOOLEAN : SendDone(s, ok)
  \/ Subscribe
  \/ \E d \in EvictSteps : TickUpTo(d, MaxEvictTicks)

SpecRefresh == InitNoMap /\ [][NextRefresh]_vars

\* Chats of two agents, two seconds apart.
ChatSteps == {Seconds(2)}

NextChat ==
  \/ \E name \in EvictNames : register_bot(name)
  \/ \E code \in EvictCodes : verify_claim(code, TRUE, HandleOf(code))
  \/ \E token \in EvictCodes : join_world(token, SPAWN_POINTS[1])
  \/ \E agent_id \in Ids, message \in Messages : send_chat(agent_id, message)
  \/ \E d \in ChatSteps : TickUpTo(d, MaxChatTicks)

SpecChat == InitNoMap /\ [][NextChat]_vars

\* Moves answered while a viewer is connected: the handler is suspended in
\* its broadcast and other requests run before it builds its response.
ReplyDirections == {"right"}

NextReply ==
  \/ \E name \in EvictNames : register_bot(name)
  \/ \E code \in EvictCodes : verify_claim(code, TRUE, HandleOf(code))
  \/ \E token \in EvictCodes : join_world(token, SPAWN_POINTS[1])
  \/ \E agent_id \in Ids, direction \in ReplyDirections :
        move_agent(agent_id, direction, NoTarget)
  \/ \E s \in Slots : SendDone(s, TRUE)
  \/ Subscribe
  \/ \E d \in MoveSteps : TickUpTo(d, MaxReplyTicks)

SpecReply == InitNoMap /\ [][NextReply]_vars

\* Movement on every tile layer, one of which blocks a spawn point.
UnknownDirections == {"jump"}

NextSpawn ==
  \/ \E name \in MoveNames : register_bot(name)
  \/ \E code \in MoveCodes : verify_claim(code, TRUE, "h1")
  \/ \E token \in MoveCodes, i \in DOMAIN SPAWN_POINTS : join_world(token, SPAWN_POINTS[i])
  \/ \E agent_id \in Ids, direction \in Cardinals \cup UnknownDirections :
        move_agent(agent_id, direction, NoTarget)
  \/ \E agent_id \in Ids : leave_world(agent_id)
  \/ \E d \in MoveSteps : Tick(d)

SpecSpawn == InitWith(ProbeMaps) /\ [][NextSpawn]_vars

\* find_path called once, for every pair of tiles of the small map under
\* both caps and for the far pair under the default cap, on each map.
NextPath ==
  \/ \E start \in MapCells, goal \in MapCells, cap \in ProbeCaps : FindPath(start, goal, cap)
  \/ FindPath(FarStart, FarGoal, DEFAULT_MAX_STEPS)

SpecPath == InitWith(ProbeMaps) /\ [][NextPath]_vars

\* Publishes (joins and leaves of one bot) to two viewers that come and go
\* and whose sends succeed or fail.
NextPublish ==
  \/ \E name \in MoveNames : register_bot(name)
  \/ \E code \in MoveCodes : verify_claim(code, TRUE, "h1")
  \/ \E token \in MoveCodes : join_world(token, SPAWN_POINTS[1])
  \/ \E agent_id \in Ids : leave_world(agent_id)
  \/ \E s \in Slots, ok \in BOOLEAN : SendDone(s, ok)
  \/ SubscribeUpTo(MaxViewers)
  \/ \E ws \in 1..MaxViewers : Disconnect(ws)

SpecPublish == InitNoMap /\ [][NextPublish]_vars

\* Publishes to viewers one of which may stop taking data.  A send to a
\* peer that takes data returns or raises; a send to a stalled peer need
\* not end, and a peer need not disconnect.
NextStall ==
  \/ \E name \in MoveNames : register_bot(name)
  \/ \E code \in MoveCodes : verify_claim(code, TRUE, "h1")
  \/ \E token \in MoveCodes : join_world(token, SPAWN_POINTS[1])
  \/ \E agent_id \in Ids : leave_world(agent_id)
  \/ \E s \in Slots, ok \in BOOLEAN : SendDone(s, ok)
  \/ SubscribeUpTo(MaxViewers)
  \/ \E ws \in 1..MaxViewers : Disconnect(ws)
  \/ \E ws \in 1..MaxViewers : Stall(ws)

SpecStallFair ==
  /\ InitNoMap
  /\ [][NextStall]_vars
  /\ WF_vars(\E s \in Slots, ok \in BOOLEAN : SendDone(s, ok))

\* Snapshot and restore: one agent moves and chats, the snapshot loop
\* saves, and the process is started again from the file.
SaveSteps == {Seconds(2)}
MaxSaveTicks == 2

NextSave ==
  \/ \E name \in MoveNames : register_bot(name)
  \/ \E code \in MoveCodes : verify_claim(code, TRUE, "h1")
  \/ \E token \in MoveCodes : join_world(token, SPAWN_POINTS[1])
  \/ \E agent_id \in Ids : move_agent(agent_id, "right", NoTarget)
  \/ \E agent_id \in Ids : send_chat(agent_id, "hi")
  \/ \E d \in SaveSteps : TickUpTo(d, MaxSaveTicks)
  \/ PeriodicSave
  \/ Restart

SpecSave == InitNoMap /\ [][NextSave]_vars

\* Startup from a damaged file: an agent joins and chats, the file the
\* program wrote is damaged, and the process is started again.
NextLoad ==
  \/ \E name \in MoveNames : register_bot(name)
  \/ \E code \in MoveCodes : verify_claim(code, TRUE, "h1")
  \/ \E token \in MoveCodes : join_world(token, SPAWN_POINTS[1])
  \/ \E agent_id \in Ids : send_chat(agent_id, "hi")
  \/ \E d \in SaveSteps : TickUpTo(d, MaxSaveTicks)
  \/ PeriodicSave
  \/ \E ok \in BOOLEAN : Disk(ok)
  \/ \E part \in FileParts : Corrupt(part)
  \/ Restart

SpecLoad == InitNoMap /\ [][NextLoad]_vars

\* The registration flow alone: register, claim, join with valid, unknown
\* and missing tokens, leave.  No viewer is connected.
TokenNames == {"Al", "Bob"}

NextToken ==
  \/ \E name \in TokenNames : register_bot(name)
  \/ \E code \in Ids, handle \in JoinHandles : verify_claim(code, TRUE, handle)
  \/ \E code \in Ids : verify_claim(code, FALSE, "h1")
  \/ \E token \in Ids \cup {Bogus, EmptyToken} : join_world(token, SPAWN_POINTS[1])
  \/ \E agent_id \in Ids : leave_world(agent_id)

SpecToken == InitNoMap /\ [][NextToken]_vars

\* The two counters of one agent under every answer of /move and /chat:
\* cardinal moves onto free and blocked tiles, target moves with and
\* without a path, chats with good and bad texts, calls inside and outside
\* the cooldowns and calls for agents that do not exist.
CountDirections == {"right", "down"}
CountTargets == {<<1, 1>>}
CountSteps == {Seconds(2)}
MaxCountTicks == 3

NextCount ==
  \/ \E name \in MoveNames : register_bot(name)
  \/ \E code \in MoveCodes : verify_claim(code, TRUE, "h1")
  \/ \E token \in MoveCodes : join_world(token, SPAWN_POINTS[1])
  \/ \E agent_id \in Ids, direction \in CountDirections :
        move_agent(agent_id, direction, NoTarget)
  \/ \E agent_id \in Ids, target \in CountTargets : move_agent(agent_id, "to", target)
  \/ \E agent_id \in Ids, message \in Messages : send_chat(agent_id, message)
  \/ \E agent_id \in Ids : leave_world(agent_id)
  \/ \E d \in CountSteps : TickUpTo(d, MaxCountTicks)

SpecCount == Init /\ [][NextCount]_vars

\* Target moves alone: one agent is sent to one destination after
\* another, on the open grid and on the walled tile layer.
NextRetarget ==
  \/ \E name \in MoveNames : register_bot(name)
  \/ \E code \in MoveCodes : verify_claim(code, TRUE, "h1")
  \/ \E token \in MoveCodes : join_world(token, SPAWN_POINTS[1])
  \/ \E agent_id \in Ids, target \in Targets : move_agent(agent_id, "to", target)
  \/ \E d \in MoveSteps : Tick(d)

SpecRetarget == Init /\ [][NextRetarget]_vars

\* One agent joins at (0, 0) and repeats the target move to one
\* destination, the unblocked corner (MAP_WIDTH - 1, 0), with no other
\* move in between, on the open grid and on the tile layers.
RouteTargets == {<<MAP_WIDTH + 5, -3>>}

NextRoute ==
  \/ \E name \in MoveNames : register_bot(name)
  \/ \E code \in MoveCodes : verify_claim(code, TRUE, "h1")
  \/ \E token \in MoveCodes : join_world(token, SPAWN_POINTS[1])
  \/ \E agent_id \in Ids, target \in RouteTargets : move_agent(agent_id, "to", target)
  \/ \E d \in MoveSteps : Tick(d)

SpecRoute == InitWith(ProbeMaps) /\ [][NextRoute]_vars

\* One agent whose visits are observed joins at a spawn point and walks
\* the map by cardinal moves.
NextVisit ==
  \/ \E name \in MoveNames : register_bot(name)
  \/ \E code \in MoveCodes : verify_claim(code, TRUE, "h1")
  \/ \E token \in MoveCodes, i \in DOMAIN SPAWN_POINTS : join_world(token, SPAWN_POINTS[i])
  \/ \E agent_id \in Ids, direction \in Cardinals : move_agent(agent_id, direction, NoTarget)
  \/ \E d \in MoveSteps : Tick(d)

SpecVisit == InitLayer(CollisionMaps, TRUE) /\ [][NextVisit]_vars

\* Two agents whose needs are observed join next to the cafe and move,
\* chat, set activities, perform emotes with and without a target, flirt
\* and break up, host and join an event, while decay passes run.
NeedActivities == {"resting"}
NeedEmotes == {"sleep", "hug", "eat"}
NeedRomance == {"flirt", "breakup"}
MaxNeedTicks == 1

NextNeeds ==
  \/ \E name \in EvictNames : register_bot(name)
  \/ \E code \in EvictCodes : verify_claim(code, TRUE, HandleOf(code))
  \/ \E token \in EvictCodes : join_world(token, SPAWN_POINTS[2])
  \/ \E agent_id \in MoveCodes : move_agent(agent_id, "right", NoTarget)
  \/ \E agent_id \in MoveCodes : send_chat(agent_id, "hi")
  \/ \E agent_id \in MoveCodes, activity \in NeedActivities : set_activity(agent_id, activity)
  \/ \E agent_id \in MoveCodes, action \in NeedEmotes : perform_action(agent_id, action, 2)
  \/ \E action \in NeedRomance : romance_action(2, 1, action)
  \/ \E agent_id \in MoveCodes : create_event(agent_id, "party")
  \/ \E agent_id \in EvictCodes : join_event(1, agent_id)
  \/ decay_needs
  \/ \E d \in MoveSteps : TickUpTo(d, MaxNeedTicks)

SpecNeeds == InitLayer({<<>>}, TRUE) /\ [][NextNeeds]_vars

\* One bot joins, moves and leaves while a viewer whose inbox is recorded
\* is connected: up to MaxInflight publishes are suspended in their sends
\* at once, and each send returns or raises on its own.
NextOrder ==
  \/ \E name \in MoveNames : register_bot(name)
  \/ \E code \in MoveCodes : verify_claim(code, TRUE, "h1")
  \/ \E token \in MoveCodes : join_world(token, SPAWN_POINTS[1])
  \/ \E agent_id \in MoveCodes, direction \in CountDirections :
        move_agent(agent_id, direction, NoTarget)
  \/ \E agent_id \in MoveCodes : leave_world(agent_id)
  \/ \E s \in Slots, ok \in BOOLEAN : SendDone(s, ok)
  \/ Subscribe
  \/ \E d \in MoveSteps : Tick(d)

SpecOrder == InitObserved({<<>>}, FALSE, TRUE) /\ [][NextOrder]_vars

\* Two bots join at different spawn points; the first moves right and
\* chats, the second walks to a target along its cached path, each under
\* its own cooldowns.
FrameTargets == {<<2, 2>>}
MaxFrameTicks == 2

NextFrame ==
  \/ \E name \in EvictNames : register_bot(name)
  \/ \E code \in EvictCodes : verify_claim(code, TRUE, HandleOf(code))
  \/ \E token \in EvictCodes : join_world(token, SPAWN_POINTS[token])
  \/ \E agent_id \in {1} : move_agent(agent_id, "right", NoTarget)
  \/ \E agent_id \in {2}, target \in FrameTargets : move_agent(agent_id, "to", target)
  \/ \E agent_id \in {1} : send_chat(agent_id, "hi")
  \/ \E d \in MoveSteps : TickUpTo(d, MaxFrameTicks)

SpecFrame == InitNoMap /\ [][NextFrame]_vars

\* is_blocked called once on a coordinate in or around the grid, on each
\* map.
ProbeMargin == 2

ProbeCoords ==
  ((0 - ProbeMargin)..(COLLISION_WIDTH - 1 + ProbeMargin))
    \X ((0 - ProbeMargin)..(COLLISION_HEIGHT - 1 + ProbeMargin))

NextBlocked == \E c \in ProbeCoords : IsBlocked(c[1], c[2])

SpecBlocked == InitWith(ProbeMaps) /\ [][NextBlocked]_vars

(* ------------------------------- claims ------------------------------- *)
\* The step is a /move call for agent a, a /chat call for agent a (every
\* handler answers with its operation and the id it was called with).
MoveCall(a) ==
  /\ result'.op = "move"
  /\ result'.id = a
  /\ \/ \E d \in Directions : move_agent(a, d, NoTarget)
     \/ \E t \in Targets : move_agent(a, "to", t)

ChatCall(a) ==
  /\ result'.op = "chat"
  /\ result'.id = a
  /\ \E m \in Messages : send_chat(a, m)

InMap(x, y) == x \in 0..(MAP_WIDTH - 1) /\ y \in 0..(MAP_HEIGHT - 1)

Actions == {"move", "chat"}

C2_AllowedCallsApart ==
  [][\A a \in DOMAIN rate_limits' :
       /\ \A k \in Actions :
            rate_limits'[a][k] # RateEntry(rate_limits, a)[k]
            => /\ rate_limits'[a][k] = now
               /\ now - RateEntry(rate_limits, a)[k] >= RATE_LIMITS[k]
       /\ (a \in DOMAIN agents /\ ChatCall(a) /\ result'.status # "RateLimited")
            => /\ RateEntry(rate_limits', a)["chat"] = now
               /\ now - RateEntry(rate_limits, a)["chat"] >= RATE_LIMITS["chat"]
       /\ (a \in DOMAIN agents /\ MoveCall(a) /\ result'.status # "RateLimited")
            => /\ RateEntry(rate_limits', a)["move"] = now
               /\ now - RateEntry(rate_limits, a)["move"] >= RATE_LIMITS["move"]]_vars

\* An agent with two accepted chats and two committed moves.
C2_Witness ==
  \E a \in DOMAIN agents : agents[a].message_count >= 2 /\ agents[a].move_count >= 2

\* C3: an agent's first /chat or /move call (it has no rate-limit entry yet)
\* is not RateLimited whatever the clock shows; a call less than the
\* cooldown after the last allowed one is RateLimited and a call at least
\* the cooldown after it is not.
C3_FirstCallAllowed ==
  [][\A a \in DOMAIN agents :
       /\ (a \notin DOMAIN rate_limits /\ (ChatCall(a) \/ MoveCall(a)))
            => result'.status # "RateLimited"
       /\ (RateEntry(rate_limits, a)["chat"] > 0 /\ ChatCall(a))
            => (result'.status = "RateLimited"
                  <=> now - RateEntry(rate_limits, a)["chat"] < RATE_LIMITS["chat"])
       /\ (RateEntry(rate_limits, a)["move"] > 0 /\ MoveCall(a))
            => (result'.status = "RateLimited"
                  <=> now - RateEntry(rate_limits, a)["move"] < RATE_LIMITS["move"])]_vars

\* C3, the part the code keeps: once a call of the action has been allowed,
\* a later call is RateLimited exactly when it comes less than the cooldown
\* after the last allowed one.
C3_LaterCalls ==
  [][\A a \in DOMAIN agents :
       /\ (RateEntry(rate_limits, a)["chat"] > 0 /\ ChatCall(a))
            => (result'.status = "RateLimited"
                  <=> now - RateEntry(rate_limits, a)["chat"] < RATE_LIMITS["chat"])
       /\ (RateEntry(rate_limits, a)["move"] > 0 /\ MoveCall(a))
            => (result'.status = "RateLimited"
                  <=> now - RateEntry(rate_limits, a)["move"] < RATE_LIMITS["move"])]_vars

\* C4: a /move or /chat call answered RateLimited leaves every agent record
\* (position, counters, last_seen), the path cache and the chat history as
\* they were, and the last-allowed times read for the agent are the same.
C4_DeniedCallChangesNothing ==
  [][\A a \in DOMAIN agents :
       ((MoveCall(a) \/ ChatCall(a)) /\ result'.status = "RateLimited")
       => /\ agents' = agents
          /\ agent_paths' = agent_paths
          /\ chat_history' = chat_history
          /\ RateEntry(rate_limits', a) = RateEntry(rate_limits, a)]_vars

\* A chat denied for an agent that has chatted before and has a cached path.
C4_Witness ==
  \E a \in DOMAIN agents :
    /\ result = Answer("chat", a, "RateLimited")
    /\ agents[a].message_count >= 1
    /\ a \in DOMAIN agent_paths
    /\ agent_paths[a] # <<>>

\* C5: a cardinal move that the limiter allows and whose destination tile
\* is blocked is answered Blocked; a move answered Blocked leaves the
\* agent's record (position, move_count, last_seen) as it was and leaves no
\* path-cache entry for the agent.
C5_BlockedMoveRejected ==
  [][\A a \in DOMAIN agents :
       /\ \A d \in Cardinals :
            LET dest == Destination(<<agents[a].x, agents[a].y>>, d)
            IN (/\ result'.op = "move"
                /\ result'.id = a
                /\ is_blocked(COLLISION_MAP, dest[1], dest[2])
                /\ RateAllowed(rate_limits, a, "move", now)
                /\ move_agent(a, d, NoTarget))
               => result'.status = "Blocked"
       /\ (result'.status = "Blocked" /\ MoveCall(a))
            => /\ a \in DOMAIN agents'
               /\ agents'[a] = agents[a]
               /\ a \notin DOMAIN agent_paths']_vars

\* A move answered Blocked for an agent that has moved before.
C5_Witness ==
  \E a \in DOMAIN agents :
    /\ result = Answer("move", a, "Blocked")
    /\ agents[a].move_count >= 1
    /\ a \notin DOMAIN agent_paths

\* C6: a /move or /chat call for an id that is not in agents is answered
\* NotFound and changes nothing: no rate-limit entry, no path, no agent.
C6_UnknownAgentNotFound ==
  [][\A a \in Ids \ DOMAIN agents :
       (MoveCall(a) \/ ChatCall(a))
       => /\ result'.status = "NotFound"
          /\ UNCHANGED <<worldVars, regVars, hubVars, envVars, probeVars, simVars, inbox, storeVars, replyVars, njoins, left_events>>]_vars

\* A chat answered NotFound for an id whose agent has left and whose
\* last-allowed times would have made the limiter deny the call.
C6_Witness ==
  \E a \in Ids \ DOMAIN agents :
    /\ result = Answer("chat", a, "NotFound")
    /\ a \in DOMAIN rate_limits
    /\ ~RateAllowed(rate_limits, a, "chat", now)

\* C7: no two active agents have names that are equal ignoring case, and a
\* join whose registered name equals an active agent's name ignoring case is
\* answered NameTaken and creates no agent.
C7_NamesUnique ==
  [][/\ \A a, b \in DOMAIN agents' :
          Lower(agents'[a].name) = Lower(agents'[b].name) => a = b
     /\ \A token \in DOMAIN verified_registrations :
          (/\ Cardinality(DOMAIN agents) < MAX_AGENTS
           /\ \E a \in DOMAIN agents :
                Lower(agents[a].name) = Lower(verified_registrations[token].name)
           /\ result'.op = "join"
           /\ join_world(token, SPAWN_POINTS[1]))
          => result'.status = "NameTaken" /\ agents' = agents]_vars

\* A join refused with NameTaken while the broadcast of an earlier join is
\* still in flight.
C7_Witness ==
  /\ result.op = "join"
  /\ result.status = "NameTaken"
  /\ \E s \in Slots : tasks[s].kind = "agent_joined"

\* C8: the number of active agents never exceeds MAX_AGENTS, and a join
\* made when it has reached MAX_AGENTS is answered WorldFull and creates no
\* agent.
C8_NeverOverFull ==
  [][/\ Cardinality(DOMAIN agents') <= MAX_AGENTS
     /\ \A token \in Ids \cup {Bogus} :
          (/\ Cardinality(DOMAIN agents) >= MAX_AGENTS
           /\ result'.op = "join"
           /\ join_world(token, SPAWN_POINTS[1]))
          => result'.status = "WorldFull" /\ agents' = agents]_vars

\* A join with a valid token refused with WorldFull while the broadcasts of
\* two earlier joins are still in flight.
C8_Witness ==
  /\ result.op = "join"
  /\ result.status = "WorldFull"
  /\ result.id \in DOMAIN verified_registrations
  /\ \A s \in Slots : tasks[s].kind = "agent_joined"

\* C9: for every agent that has been removed there is no path-cache entry,
\* no rate-limit entry and no API key.
C9_NoStateLeftBehind ==
  \A a \in 1..njoins :
    a \notin DOMAIN agents
    => /\ a \notin DOMAIN agent_paths
       /\ a \notin DOMAIN rate_limits
       /\ \A k \in DOMAIN api_keys : api_keys[k] # a

\* C10: an agent whose last_seen is older than the inactivity timeout is
\* eventually removed, and for every removed agent exactly one agent_left
\* event has been published (none for an agent that is still active).
C10_EvictedOnce ==
  /\ \A a \in Ids :
       [](a \in DOMAIN agents /\ now - agents[a].last_seen > Seconds(300)
            => <>(a \notin DOMAIN agents))
  /\ [](\A a \in Ids :
          left_events[a] = IF a <= njoins /\ a \notin DOMAIN agents THEN 1 ELSE 0)

\* C10, the part the code keeps: exactly one agent_left event per removed
\* agent, whichever of leave_world and the clean-up pass removes it.
C10_ExactlyOnce ==
  \A a \in Ids : left_events[a] = IF a <= njoins /\ a \notin DOMAIN agents THEN 1 ELSE 0

\* C10, the liveness the code keeps: as long as no viewer's socket stalls,
\* every inactive agent is eventually removed.
C10_IfSendsEnd ==
  ([](stalled = {})) =>
    \A a \in Ids :
      [](a \in DOMAIN agents /\ now - agents[a].last_seen > Seconds(300)
           => <>(a \notin DOMAIN agents))

\* The step removes agent a and is no request's answer: the clean-up pass
\* has evicted a.
EvictedIn(a) ==
  /\ a \in DOMAIN agents
  /\ a \notin DOMAIN agents'
  /\ result' = result

\* C11: at the moment the clean-up pass removes an agent, the agent's
\* last_seen is more than the inactivity timeout before the clock.
C11_EvictsOnlyInactive ==
  [][\A a \in Ids :
       EvictedIn(a) => now - agents[a].last_seen > Seconds(300)]_vars

\* Chat texts that send_chat's length tests reject.
BadMessages == {m \in Messages : MsgLen(m) > 500 \/ StripLen(m) = 0}

\* C12: a chat of an active agent whose text is empty, only whitespace or
\* longer than 500 characters is rejected, leaves chat history and the
\* agent's record (message_count, last_seen) as they were, and leaves the
\* agent's chat cooldown as it was.
C12_BadChatChangesNothing ==
  [][\A a \in DOMAIN agents, m \in BadMessages :
       (result'.op = "chat" /\ result'.id = a /\ send_chat(a, m))
       => /\ result'.status # "ok"
          /\ agents' = agents
          /\ chat_history' = chat_history
          /\ RateEntry(rate_limits', a) = RateEntry(rate_limits, a)]_vars

\* The last n entries of a sequence.
Newest(seq, n) == SubSeq(seq, Len(seq) - Min2(Len(seq), n) + 1, Len(seq))

AcceptedChat(a) == result'.status = "ok" /\ ChatCall(a)

\* C13: an accepted chat puts its message (sender, text position and time
\* of the call) at the end of the history and the history then holds the
\* newest MAX_CHAT_HISTORY entries of the old history followed by it, in
\* order; no other step changes the history; the history never holds more
\* than MAX_CHAT_HISTORY messages.
C13_HistoryBoundedFifo ==
  [][/\ Len(chat_history') <= MAX_CHAT_HISTORY
     /\ \A a \in Ids :
          AcceptedChat(a)
          => /\ chat_history' # <<>>
             /\ Last(chat_history').from_id = a
             /\ Last(chat_history').timestamp = now
             /\ chat_history' =
                  Newest(Append(chat_history, Last(chat_history')), MAX_CHAT_HISTORY)
     /\ chat_history' # chat_history => \E a \in Ids : AcceptedChat(a)]_vars

\* The history is full and a message of an agent that is still in the
\* world is no longer in it.
C13_Witness ==
  /\ Len(chat_history) = MAX_CHAT_HISTORY
  /\ \E a \in DOMAIN agents :
       agents[a].message_count >
         Cardinality({i \in 1..Len(chat_history) : chat_history[i].from_id = a})

\* The tile next to (x, y) in a cardinal direction, or (x, y) itself where
\* that tile would be off the map.
AdjacentOnMap(x, y, direction) ==
  CASE direction = "up" -> IF y - 1 >= 0 THEN <<x, y - 1>> ELSE <<x, y>>
    [] direction = "down" -> IF y + 1 <= MAP_HEIGHT - 1 THEN <<x, y + 1>> ELSE <<x, y>>
    [] direction = "left" -> IF x - 1 >= 0 THEN <<x - 1, y>> ELSE <<x, y>>
    [] direction = "right" -> IF x + 1 <= MAP_WIDTH - 1 THEN <<x + 1, y>> ELSE <<x, y>>

\* C14: a cardinal move that the limiter allows and whose adjacent tile,
\* clamped to the map, is not blocked succeeds, puts the agent on that tile
\* and adds one to its move_count.
C14_CardinalMoveAdjacent ==
  [][\A a \in DOMAIN agents, d \in Cardinals :
       (/\ result'.op = "move"
        /\ result'.id = a
        /\ move_agent(a, d, NoTarget)
        /\ RateAllowed(rate_limits, a, "move", now))
       => LET dest == AdjacentOnMap(agents[a].x, agents[a].y, d)
          IN ~is_blocked(COLLISION_MAP, dest[1], dest[2])
             => /\ result'.status = "ok"
                /\ agents'[a].x = dest[1]
                /\ agents'[a].y = dest[2]
                /\ agents'[a].move_count = agents[a].move_count + 1]_vars

\* On the map without blocked tiles an agent that joined at (0, 0) has made
\* three moves and stands on (3, 0).
C14_Witness ==
  /\ COLLISION_MAP = <<>>
  /\ \E a \in DOMAIN agents :
       /\ agents[a].x = 3
       /\ agents[a].y = 0
       /\ agents[a].move_count = 3
       /\ result = Answer("move", a, "ok")

\* C15: the response of a successful move carries the position this move
\* committed and exactly the other agents of the world within Manhattan
\* distance 5 of that position.
C15_ReplyIsCommittedPosition ==
  [][(move_reply' # move_reply /\ move_reply' # NoReply)
     => /\ move_reply'.position = move_reply'.committed
        /\ move_reply'.nearby =
             NearbyAgents(agents', move_reply'.id, move_reply'.committed)]_vars

\* C16: a move whose direction is none of up, down, left, right and "to",
\* made by an active agent and allowed by the limiter, is answered with
\* success and leaves the agent where it stands.
C16_UnknownDirectionSucceeds ==
  [][\A a \in DOMAIN agents, d \in UnknownDirections :
       (/\ result'.op = "move"
        /\ result'.id = a
        /\ move_agent(a, d, NoTarget)
        /\ RateAllowed(rate_limits, a, "move", now))
       => /\ result'.status = "ok"
          /\ agents'[a].x = agents[a].x
          /\ agents'[a].y = agents[a].y]_vars

\* A cell of the map at the size the server runs with.
InFullMap(c) == c[1] \in 0..(FULL_MAP_WIDTH - 1) /\ c[2] \in 0..(FULL_MAP_HEIGHT - 1)

\* A find_path call with the default cap between two distinct cells of the
\* map, no tile of which is blocked.
OpenGridProbe ==
  /\ path_probe # NoProbe
  /\ COLLISION_MAP = <<>>
  /\ path_probe.cap = DEFAULT_MAX_STEPS
  /\ path_probe.start # path_probe.goal
  /\ InFullMap(path_probe.start)
  /\ InFullMap(path_probe.goal)

\* C17: with no blocked tile, find_path with the default cap returns,
\* between any two distinct cells of the map, a path as long as their
\* Manhattan distance.
C17_OpenGridPathIsManhattan ==
  OpenGridProbe => Len(path_probe.path) = heuristic(path_probe.start, path_probe.goal)

\* C18: a non-empty path returned by find_path does not contain the start,
\* ends at the goal, or at the goal's substitute when the goal is blocked,
\* holds unblocked cells only, and steps from the start to its first cell
\* and from each cell to the next are between 4-adjacent cells.
C18_PathWellFormed ==
  (path_probe # NoProbe /\ path_probe.path # <<>>)
  => LET path == path_probe.path
         start == path_probe.start
         goal == path_probe.goal
     IN /\ \A i \in 1..Len(path) : path[i] # start
        /\ IF is_blocked(COLLISION_MAP, goal[1], goal[2])
           THEN Last(path) = SubstituteGoal(COLLISION_MAP, goal[1], goal[2])
           ELSE Last(path) = goal
        /\ \A i \in 1..Len(path) : ~is_blocked(COLLISION_MAP, path[i][1], path[i][2])
        /\ heuristic(start, path[1]) = 1
        /\ \A i \in 2..Len(path) : heuristic(path[i - 1], path[i]) = 1

\* A path of three or more steps around walls to the substitute of a
\* blocked goal.
C18_Witness ==
  /\ path_probe # NoProbe
  /\ COLLISION_MAP = TileLayer
  /\ is_blocked(COLLISION_MAP, path_probe.goal[1], path_probe.goal[2])
  /\ Len(path_probe.path) >= 3
  /\ Len(path_probe.path) > heuristic(path_probe.start, Last(path_probe.path))

\* C19: every find_path call returns, having expanded no more nodes than
\* its cap, and returns the empty path when the goal was not expanded.
C19_ExpansionsCapped ==
  path_probe # NoProbe
  => /\ path_probe.returned
     /\ path_probe.expanded <= path_probe.cap
     /\ ~path_probe.goal_expanded => path_probe.path = <<>>

\* With no collision map loaded, a search that stopped at its cap without
\* reaching the goal.
C19_Witness ==
  /\ path_probe # NoProbe
  /\ COLLISION_MAP = <<>>
  /\ path_probe.start # path_probe.goal
  /\ path_probe.expanded = path_probe.cap
  /\ ~path_probe.goal_expanded
  /\ path_probe.path = <<>>

\* The unblocked tiles within the ring search's reach of a tile.
FreeTilesNear(cmap, goal) ==
  {c \in ((goal[1] - 9)..(goal[1] + 9)) \X ((goal[2] - 9)..(goal[2] + 9)) :
     /\ heuristic(c, goal) \in 1..9
     /\ ~is_blocked(cmap, c[1], c[2])}

\* C20: a path returned for a blocked goal ends on an unblocked tile other
\* than the goal, within the ring search's reach, and no unblocked tile
\* within that reach is nearer to the goal (Manhattan distance).
C20_SubstituteIsNearestFree ==
  (/\ path_probe # NoProbe
   /\ is_blocked(COLLISION_MAP, path_probe.goal[1], path_probe.goal[2])
   /\ path_probe.path # <<>>)
  => LET goal == path_probe.goal
         sub == Last(path_probe.path)
     IN /\ sub # goal
        /\ sub \in FreeTilesNear(COLLISION_MAP, goal)
        /\ \A c \in FreeTilesNear(COLLISION_MAP, goal) :
             heuristic(sub, goal) <= heuristic(c, goal)

\* A call from a blocked tile to itself: the path is the one step to the
\* nearest unblocked tile.
C20_Witness ==
  /\ path_probe # NoProbe
  /\ path_probe.start = path_probe.goal
  /\ is_blocked(COLLISION_MAP, path_probe.goal[1], path_probe.goal[2])
  /\ Len(path_probe.path) = 1
  /\ heuristic(path_probe.path[1], path_probe.goal) = 1

InGrid(x, y) == x \in 0..(COLLISION_WIDTH - 1) /\ y \in 0..(COLLISION_HEIGHT - 1)

\* C21: is_blocked answers true for every coordinate outside
\* [0, width) x [0, height), whatever collision grid is loaded, the case
\* of no tile layer included.
C21_OutsideIsBlocked ==
  (block_probe # NoBlockProbe /\ ~InGrid(block_probe.x, block_probe.y))
  => block_probe.blocked

\* The websockets in the list of connections.
Connected(conns) == {conns[i] : i \in 1..Len(conns)}

\* The step in which the broadcast of slot s returns.
PublishEnds(s) == tasks[s] # Idle /\ tasks'[s] = Idle

\* C22: when a broadcast returns, send_text has been called on every viewer
\* that was connected when the broadcast began and is connected still, and
\* the viewers the broadcast removes are among those it has sent to.
C22_PublishReachesLiveViewers ==
  [][\A s \in Slots :
       PublishEnds(s)
       => /\ \A ws \in Connected(ws_connections) :
               ws <= tasks[s].since => ws \in tasks[s].tried
          /\ Connected(ws_connections) \ Connected(ws_connections')
               \subseteq tasks[s].tried]_vars

\* No broadcast is in progress.
Quiet == (\A s \in Slots : tasks[s] = Idle) /\ cleanup.pc = "sleep"

\* C23: a viewer is sent the world snapshot when it subscribes and then
\* every event published after the snapshot: once all broadcasts have
\* returned, no event published since a connected viewer's snapshot is
\* unsent to it.
C23_EventsAfterSnapshotSent ==
  Quiet => \A ws \in Connected(ws_connections) : undelivered[ws] = 0

\* C24: every broadcast returns: a request suspended in broadcast_update
\* is eventually no longer suspended.
C24_PublishReturns ==
  \A s \in Slots : (tasks[s] # Idle) ~> (tasks[s] = Idle)

\* The file holds the world as it is in memory: a save has written it and
\* nothing it covers has changed since.
FileIsCurrent ==
  data_file = json_dump(agents, api_keys, chat_history, used_twitter_handles)

Malformed(file) == file.kind \in {"text", "array"} \/ file.bad # {}

\* C26: a startup that finds no file, or a file malformed in any part,
\* leaves the world empty: no agents, no API keys, no chat history and no
\* used Twitter handles.
C26_BadFileStartsEmpty ==
  [][(boots' = boots + 1 /\ (data_file = NoFile \/ Malformed(data_file))) =>
       /\ DOMAIN agents' = {}
       /\ DOMAIN api_keys' = {}
       /\ chat_history' = <<>>
       /\ DOMAIN used_twitter_handles' = {}]_vars

\* C27: a save that fails in the snapshot loop does not end the loop: the
\* periodic_save task is still there to sleep and save again.
C27_SnapshotLoopSurvives == saver # "ended"

\* The agents a step adds to the registry.
Created == DOMAIN agents' \ DOMAIN agents

C29_OneAgentPerHandle ==
  [][\A a \in Created :
       Lower(agents'[a].twitter_handle) \notin DOMAIN used_twitter_handles]_vars

Refusals == {"NotFound", "RateLimited", "Blocked", "TooLong", "Empty", "AtDestination"}

SameCounters(a) ==
  /\ a \in DOMAIN agents'
  /\ agents'[a].move_count = agents[a].move_count
  /\ agents'[a].message_count = agents[a].message_count

\* C30: a move that commits a position adds one to the agent's move_count
\* and leaves its message_count, an accepted chat adds one to its
\* message_count and leaves its move_count; a call that is refused
\* (unknown agent, rate limit, blocked tile, empty or over-long text) or
\* that finds no path changes no counter of any agent; a call changes no
\* counter of another agent, and no counter changes in any other step.
C30_CountersFollowCalls ==
  [][/\ \A a \in DOMAIN agents :
          /\ (MoveCall(a) /\ result'.status = "ok")
             => /\ a \in DOMAIN agents'
                /\ agents'[a].move_count = agents[a].move_count + 1
                /\ agents'[a].message_count = agents[a].message_count
          /\ (ChatCall(a) /\ result'.status = "ok")
             => /\ a \in DOMAIN agents'
                /\ agents'[a].message_count = agents[a].message_count + 1
                /\ agents'[a].move_count = agents[a].move_count
          /\ (a \in DOMAIN agents' /\ ~SameCounters(a))
             => (MoveCall(a) \/ ChatCall(a)) /\ result'.status = "ok"
     /\ \A a \in Ids :
          ((MoveCall(a) \/ ChatCall(a)) /\ result'.status \in Refusals)
          => \A b \in DOMAIN agents : SameCounters(b)]_vars

\* An agent that has moved and chatted is refused a move to a target it
\* has no path to.
C30_Witness ==
  \E a \in DOMAIN agents :
    /\ agents[a].move_count > 0
    /\ agents[a].message_count > 0
    /\ result = Answer("move", a, "AtDestination")

\* (target_x, target_y) after the two clamps of the "to" branch
ClampedTarget(t) == <<clamp(t[1], 0, MAP_WIDTH - 1), clamp(t[2], 0, MAP_HEIGHT - 1)>>

CachedPath(a) == IF a \in DOMAIN agent_paths THEN agent_paths[a] ELSE <<>>

\* C31: a target move that the rate limiter allows, made while the cache
\* is exhausted or ends in another cell than the destination, takes the
\* first step of the path find_path gives from the agent's position to the
\* destination and caches the rest; when that path is empty the agent
\* stays and the cache is empty.
C31_RetargetRecomputes ==
  [][\A a \in DOMAIN agents, t \in Targets :
       (/\ result'.op = "move"
        /\ result'.id = a
        /\ RateAllowed(rate_limits, a, "move", now)
        /\ CachedPath(a) = <<>> \/ Last(CachedPath(a)) # ClampedTarget(t)
        /\ move_agent(a, "to", t))
       => LET goal == ClampedTarget(t)
              path == find_path_default(COLLISION_MAP, agents[a].x, agents[a].y,
                                        goal[1], goal[2])
          IN IF path = <<>>
             THEN /\ result'.status = "AtDestination"
                  /\ agents'[a] = agents[a]
                  /\ agent_paths'[a] = <<>>
             ELSE /\ result'.status = "ok"
                  /\ <<agents'[a].x, agents'[a].y>> = Head(path)
                  /\ agent_paths'[a] = Tail(path)]_vars

\* On the open grid, where only target moves are made from (0, 0), an
\* agent holds a route to (0, 2) after more moves than lead it there: it
\* was on its way to another destination before.
C31_Witness ==
  /\ COLLISION_MAP = <<>>
  /\ \E a \in DOMAIN agents :
       /\ CachedPath(a) # <<>>
       /\ Last(CachedPath(a)) = <<0, 2>>
       /\ Abs(agents[a].x) + Abs(agents[a].y - 2) + agents[a].move_count > 2
       /\ result = Answer("move", a, "ok")

\* C32: a successful move leaves the agent on the tile it was on or on
\* one of the four tiles next to it.
C32_MoveIsOneTile ==
  [][\A a \in DOMAIN agents :
       (MoveCall(a) /\ result'.status = "ok")
       => /\ a \in DOMAIN agents'
          /\ Abs(agents'[a].x - agents[a].x) + Abs(agents'[a].y - agents[a].y) <= 1]_vars

\* The destination of the repeated target move and the path find_path
\* gives to it from the spawn point, the path first computed.
RouteGoal == <<MAP_WIDTH - 1, 0>>

FirstPath ==
  find_path(COLLISION_MAP, SPAWN_POINTS[1][1], SPAWN_POINTS[1][2],
            RouteGoal[1], RouteGoal[2], DEFAULT_MAX_STEPS)

\* C33: where an agent only repeats target moves to one unblocked
\* destination, it has made no more successful moves than the path first
\* computed is long, it stands on the destination once its moves are that
\* many, and a target move is answered "at destination" only then (so on
\* the destination, without a change of position).
C33_RouteEndsAtDestination ==
  ~is_blocked(COLLISION_MAP, RouteGoal[1], RouteGoal[2])
  => \A a \in DOMAIN agents :
       /\ agents[a].move_count <= Len(FirstPath)
       /\ (agents[a].move_count > 0 /\ agents[a].move_count = Len(FirstPath))
            => <<agents[a].x, agents[a].y>> = RouteGoal
       /\ result = Answer("move", a, "AtDestination")
            => /\ agents[a].move_count = Len(FirstPath)
               /\ <<agents[a].x, agents[a].y>> = RouteGoal

\* C34: every agent in the world stands inside the map and on a tile that
\* is_blocked reports free on the collision map that was loaded.
C34_AgentsOnFreeTiles ==
  \A a \in DOMAIN agents :
    /\ agents[a].x \in 0..(MAP_WIDTH - 1)
    /\ agents[a].y \in 0..(MAP_HEIGHT - 1)
    /\ ~is_blocked(COLLISION_MAP, agents[a].x, agents[a].y)

\* The location_discovered entries emitted for agent a and location id.
Discoveries(a, id) ==
  {i \in DOMAIN activity_feed :
     activity_feed[i].agent_id = a /\ activity_feed[i].location = id}

\* C35: after a successful move the agent has on its visited list every
\* location whose radius holds its position, and for each agent and
\* location one discovery was emitted if the location is on the list and
\* none otherwise.
C35_VisitsEveryLocationAround ==
  \A a \in DOMAIN locations_visited :
    /\ result = Answer("move", a, "ok")
         => \A id \in LocationsAt(agents[a].x, agents[a].y) :
              InSeq(locations_visited[a], id)
    /\ \A i \in DOMAIN LOCATIONS :
         Cardinality(Discoveries(a, LOCATIONS[i].id))
           = IF InSeq(locations_visited[a], LOCATIONS[i].id) THEN 1 ELSE 0

\* C36: every need of every agent lies between 0 and 100 points.
C36_NeedsWithinBounds ==
  \A a \in DOMAIN needs : \A need \in NeedNames :
    needs[a][need] \in 0..Points(100)

\* A breakup has just lowered a romance need that was below 20 points,
\* while another need of the same agents stands at 100.
C36_Witness ==
  /\ result = Answer("romance", 2, "ok")
  /\ \E a \in DOMAIN needs : needs[a].romance = 0
  /\ \E a \in DOMAIN needs : needs[a].energy = Points(100)

\* The place of an event in its agent's life: joined, moved, left.
Rank(e) == IF e.kind = "agent_joined" THEN 0 ELSE IF e.kind = "agent_moved" THEN 1 ELSE 2

\* Event e was committed before event f of the same agent.
CommittedBefore(e, f) ==
  \/ Rank(e) < Rank(f)
  \/ Rank(e) = 1 /\ Rank(f) = 1 /\ e.n < f.n

KeysMatch(ag, keys) ==
  /\ \A k \in DOMAIN keys : keys[k] \in DOMAIN ag
  /\ \A a \in DOMAIN ag : Cardinality({k \in DOMAIN keys : keys[k] = a}) = 1

\* C38: in every state between two steps of the handlers and coroutines,
\* and in every snapshot on disk, the API-key table matches the agent
\* table.
C38_KeysMatchAgents ==
  /\ KeysMatch(agents, api_keys)
  /\ KeysMatch(load_world(data_file).agents, load_world(data_file).api_keys)

\* The cleanup pass is suspended in the broadcast of an eviction while
\* another agent, joined and not yet removed, is still in the world and
\* the snapshot on disk holds an agent.
C38_Witness ==
  /\ cleanup.pc = "send"
  /\ \E a \in Ids : left_events[a] > 0 /\ a \notin DOMAIN agents
  /\ agents # <<>>
  /\ load_world(data_file).agents # <<>>

\* Agent b is as it was: position, counters, last_seen, path cache and
\* rate-limit entry.
SameAgent(b) ==
  /\ b \in DOMAIN agents'
  /\ agents'[b].x = agents[b].x
  /\ agents'[b].y = agents[b].y
  /\ agents'[b].move_count = agents[b].move_count
  /\ agents'[b].message_count = agents[b].message_count
  /\ agents'[b].last_seen = agents[b].last_seen
  /\ (b \in DOMAIN agent_paths') = (b \in DOMAIN agent_paths)
  /\ b \in DOMAIN agent_paths => agent_paths'[b] = agent_paths[b]
  /\ (b \in DOMAIN rate_limits') = (b \in DOMAIN rate_limits)
  /\ b \in DOMAIN rate_limits => rate_limits'[b] = rate_limits[b]

Denied == {"NotFound", "RateLimited"}

\* C39: a /move or /chat call for agent a leaves every other agent as it
\* was, and a call the limiter allowed leaves a's last-allowed time of the
\* other kind of action as it was.
C39_CallTouchesOnlyItsAgent ==
  [][\A a \in Ids :
       /\ (MoveCall(a) \/ ChatCall(a)) => \A b \in DOMAIN agents \ {a} : SameAgent(b)
       /\ (MoveCall(a) /\ result'.status \notin Denied)
            => RateEntry(rate_limits', a).chat = RateEntry(rate_limits, a).chat
       /\ (ChatCall(a) /\ result'.status \notin Denied)
            => RateEntry(rate_limits', a).move = RateEntry(rate_limits, a).move]_vars

\* Agent 1 has just chatted after an allowed move, while agent 2 has
\* moved, holds a cached path and has its own rate-limit entry.
C39_Witness ==
  /\ result = Answer("chat", 1, "ok")
  /\ RateEntry(rate_limits, 1).move > 0
  /\ 2 \in DOMAIN agents
  /\ agents[2].move_count > 0
  /\ 2 \in DOMAIN agent_paths
  /\ agent_paths[2] # <<>>
  /\ 2 \in DOMAIN rate_limits

\* The unblocked 4-neighbours of the cells of a set.
FreeNeighbors(cmap, cells) ==
  {n \in UNION {{<<c[1] + NeighborOffsets[i][1], c[2] + NeighborOffsets[i][2]>> :
                   i \in DOMAIN NeighborOffsets} : c \in cells} :
     ~is_blocked(cmap, n[1], n[2])}

RECURSIVE BfsFrom(_, _, _, _, _, _)
\* Breadth-first search: the number of steps of a shortest 4-connected
\* path over unblocked cells to goal, -1 when there is none of at most
\* limit steps.
BfsFrom(cmap, frontier, seen, goal, d, limit) ==
  IF goal \in frontier THEN d
  ELSE IF frontier = {} \/ d >= limit THEN -1
  ELSE LET next == FreeNeighbors(cmap, frontier) \ seen
       IN BfsFrom(cmap, next, seen \cup next, goal, d + 1, limit)

BfsDistance(cmap, start, goal, limit) == BfsFrom(cmap, {start}, {start}, goal, 0, limit)

\* The path a find_path call returned is as long as a shortest path.
ProbeIsShortest ==
  (path_probe # NoProbe /\ path_probe.path # <<>>)
  => Len(path_probe.path)
       = BfsDistance(COLLISION_MAP, path_probe.start,
                     SubstituteGoal(COLLISION_MAP, path_probe.goal[1], path_probe.goal[2]),
                     path_probe.cap)

\* C40: a non-empty path returned by find_path is as long as a shortest
\* 4-connected path from the start to the goal (or its substitute) found
\* by breadth-first search, and find_path returns a path whenever one of at
\* most max_steps cells exists.
C40_ShortestPathFound ==
  path_probe # NoProbe
  => LET d == BfsDistance(COLLISION_MAP, path_probe.start,
                          SubstituteGoal(COLLISION_MAP, path_probe.goal[1],
                                         path_probe.goal[2]),
                          path_probe.cap)
     IN /\ path_probe.path # <<>> => Len(path_probe.path) = d
        /\ d > 0 => path_probe.path # <<>>

====
